---- MODULE Spec2Model ----
(***************************************************************************)
(* Layered ETL pipeline (Bronze / Silver / Gold) of data_pipeline:         *)
(* the partitioned store, status normalization, the three stages and the   *)
(* orchestrator run_pipeline, modelled from src/src/etl.                   *)
(*                                                                         *)
(* A DataFrame is a record [cols, rows]: cols is the set of column names,  *)
(* rows a bag of rows, each row a function from cols to cell values.  A    *)
(* cell is None (polars null) or Some(v).  Text is a sequence of           *)
(* characters, so that "" (the empty text) and null are different values   *)
(* and strip / starts_with are computed.  A directory of partition files   *)
(* is a function from paths to DataFrames; a path is the pair of the       *)
(* year's decimal digits and the month's two digits.                       *)
(***************************************************************************)
EXTENDS Integers, Sequences, FiniteSets, Bags, TLC

VARIABLES
    \* --- save_partitioned called repeatedly on one output directory
    dir,        \* the output directory: path -> DataFrame
    before,     \* the directory as it was when the last call started
    arg,        \* the DataFrame handed to the last call
    ret,        \* the last call's outcome: [raised, value]
    calls,      \* number of calls made
    \* --- status normalization applied to one cell
    nraw,       \* the raw Status cell
    nmap,       \* the configured status mapping
    nout,       \* the Status_Normalized cell computed
    ndone,      \* whether the normalization has run
    \* --- run_pipeline and the directories it works on
    raw,        \* data/raw/<source>: file name -> [ok, text, df]: whether
                \* the file can be read, whether its Date column is of
                \* string type, and its rows
    bronze,     \* data/bronze/<source>: path -> DataFrame
    silver,     \* data/silver/<source>: path -> DataFrame
    gold,       \* data/gold/all_sources: path -> DataFrame
    monthly,    \* data/gold/metrics/monthly_by_source.parquet, None if absent
    reasons,    \* data/gold/metrics/cancellation_reasons.parquet: None if
                \* absent, else the sequence of its rows
    srcs,       \* the sources argument of run_pipeline
    layers,     \* the layers argument of run_pipeline
    pc,         \* "idle", "running", "done" (returned) or "raised"
    pos,        \* the next step of the running call
    cur,        \* the results dict of the running run_source_pipeline
    results,    \* the results dict of run_pipeline
    trace,      \* the stage runs started by the current call, in order
    last,       \* the last stage run: stage, source, frames, raised
    runs,       \* number of run_pipeline calls made
    snap,       \* the partitions when this call started, taken when the
                \* previous call returned and the input is unchanged since
    dirty,      \* the raw input changed since the last call started
    \* --- _parse_date_column applied to one frame
    pin,        \* the frame handed to the parser
    ptext,      \* whether its Date column is of string type
    pout,       \* the frame returned
    pdone,      \* whether the parser has run
    \* --- the configuration file and run_simple_etl
    cfg,        \* whether the file at config_path exists
    sin,        \* input_dir: the spreadsheets in the order glob lists
                \* them, each [ok, text, df]
    sdir,       \* output_dir: path -> DataFrame
    sret,       \* the outcome of the call: what was raised, or the result
    sdone,      \* whether run_simple_etl has been called
    \* --- run_export_pipeline and the processed directory it reads
    xdirs,      \* the subdirectories of processed_dir other than
                \* all_sources, in name order
    xall,       \* processed_dir/all_sources: path -> DataFrame
    xout,       \* the output file: None if absent, else the document
    xraised,    \* whether the call raised
    xdone,      \* whether run_export_pipeline has been called
    \* --- get_dashboard_server and the instances it has created
    servers,    \* the DashboardServer instances in order of creation,
                \* each [directory, running]: running is server not None
    gsrv,       \* _dashboard_server: 0 for None, else the instance
    sarg,       \* the directory of the last get_dashboard_server call
    sold,       \* _dashboard_server when that call started
    sgot,       \* the instance it returned, 0 if none or if it raised
    srun,       \* whether the server of the returned instance was not
                \* None when the call returned
    snew,       \* the number of servers the last call started
    scalls,     \* number of get_dashboard_server calls made
    \* --- the Silver transform of one adapter applied to one frame
    vin,        \* the frame read from Bronze
    vsrc,       \* the source whose adapter is used
    vout,       \* the frame the transform returned
    vdone,      \* whether the transform has run
    \* --- the output root of the configuration
    outroot,    \* the parent of paths.output_dir in config.yaml
    dsilver,    \* data/silver when the output root is not data:
                \* source -> (path -> DataFrame)
    \* --- two run_pipeline calls at once on one output directory
    rin,        \* run -> the spreadsheet of the run's input directory
    rbronze,    \* bronze/<source>: path -> DataFrame
    rsilver,    \* silver/<source>: path -> DataFrame
    rpc,        \* run -> where the run is: "bronze", "bronze_write",
                \* "silver", "silver_read", "silver_write" or "done"
    rtodo,      \* run -> the partitions it has still to write, or the
                \* files it has still to read, in order
    rbuf,       \* run -> the frame it holds in memory
    rlast       \* the last file written: run, stage, path and frame

storeVars == <<dir, before, arg, ret, calls>>
normVars == <<nraw, nmap, nout, ndone>>
pipeVars == <<raw, bronze, silver, gold, monthly, reasons, srcs, layers, pc, pos, cur,
              results, trace, last, runs, snap, dirty>>
parseVars == <<pin, ptext, pout, pdone>>
simpleVars == <<cfg, sin, sdir, sret, sdone>>
exportVars == <<xdirs, xall, xout, xraised, xdone>>
serverVars == <<servers, gsrv, sarg, sold, sgot, srun, snew, scalls>>
validVars == <<vin, vsrc, vout, vdone>>
rootVars == <<outroot, dsilver>>
raceVars == <<rin, rbronze, rsilver, rpc, rtodo, rbuf, rlast>>
vars == <<storeVars, normVars, pipeVars, parseVars, simpleVars, exportVars, serverVars, validVars, rootVars, raceVars>>
\* the variables outside each group
nonStoreVars == <<normVars, pipeVars, parseVars, simpleVars, exportVars, serverVars, validVars, rootVars, raceVars>>
nonNormVars == <<storeVars, pipeVars, parseVars, simpleVars, exportVars, serverVars, validVars, rootVars, raceVars>>
nonPipeVars == <<storeVars, normVars, parseVars, simpleVars, exportVars, serverVars, validVars, rootVars, raceVars>>
nonParseVars == <<storeVars, normVars, pipeVars, simpleVars, exportVars, serverVars, validVars, rootVars, raceVars>>
nonExportVars == <<storeVars, normVars, pipeVars, parseVars, simpleVars, serverVars, validVars, rootVars, raceVars>>
nonSimpleVars == <<storeVars, normVars, pipeVars, parseVars, exportVars, serverVars, validVars, rootVars, raceVars>>
nonServerVars == <<storeVars, normVars, pipeVars, parseVars, simpleVars, exportVars, validVars, rootVars, raceVars>>
nonValidVars == <<storeVars, normVars, pipeVars, parseVars, simpleVars, exportVars, serverVars, rootVars, raceVars>>
nonRootVars == <<storeVars, normVars, pipeVars, parseVars, simpleVars, exportVars, serverVars, validVars, raceVars>>
nonRaceVars == <<storeVars, normVars, pipeVars, parseVars, simpleVars, exportVars, serverVars, validVars, rootVars>>

----------------------------------------------------------------------------
(* Bounds *)

MaxStoreRows == 2   \* rows of a frame handed to save_partitioned
MaxCalls == 2       \* calls of save_partitioned on the directory
MaxRawRows == 1     \* rows of a spreadsheet
MaxRuns == 2        \* calls of run_pipeline
MaxDateRows == 3    \* rows of a frame handed to _parse_date_column
MaxGoldRows == 3    \* rows of alpha's spreadsheet in the runs of the Gold layer

----------------------------------------------------------------------------
(* Cells *)

None == <<>>
Some(v) == <<v>>
IsNull(c) == c = None
Val(c) == c[1]

(* Text constants (sequences of characters) *)
tEmpty == <<>>
tTEST == <<"T", "E", "S", "T">>
tA1 == <<"A", "1">>
tCompleted == <<"C", "o", "m", "p", "l", "e", "t", "e", "d">>
tWeird == <<"W", "e", "i", "r", "d">>
tDelivered == <<"D", "e", "l", "i", "v", "e", "r", "e", "d">>
tCancelled == <<"C", "a", "n", "c", "e", "l", "l", "e", "d">>
tReturned == <<"R", "e", "t", "u", "r", "n", "e", "d">>
tFailed == <<"F", "a", "i", "l", "e", "d">>
tLate == <<"l", "a", "t", "e">>
tPrice == <<"p", "r", "i", "c", "e">>

----------------------------------------------------------------------------
(* DataFrames *)

EmptyFrame == [cols |-> {}, rows |-> EmptyBag]

Height(df) == BagCardinality(df.rows)

\* df.filter(P)
FilterRows(rows, P(_)) == [r \in {x \in DOMAIN rows : P(x)} |-> rows[r]]
Filter(df, P(_)) == [cols |-> df.cols, rows |-> FilterRows(df.rows, P)]

\* number of rows of a bag that satisfy P
CountRows(rows, P(_)) == BagCardinality(FilterRows(rows, P))

\* a row widened to the columns cs, null where it has no value
Widen(r, cs) == [c \in cs |-> IF c \in DOMAIN r THEN r[c] ELSE None]

\* pl.concat([a, b], how="diagonal"): union of the columns, missing cells null
ConcatDiagonal(a, b) ==
    LET cs == a.cols \cup b.cols
        W(r) == Widen(r, cs)
    IN  [cols |-> cs, rows |-> BagOfAll(W, a.rows) (+) BagOfAll(W, b.rows)]

\* df.with_columns(F.alias(name)): F computes the new cell from the row
WithColumn(df, name, F(_)) ==
    LET cs == df.cols \cup {name}
        W(r) == [c \in cs |-> IF c = name THEN F(r) ELSE r[c]]
    IN  [cols |-> cs, rows |-> BagOfAll(W, df.rows)]

----------------------------------------------------------------------------
(* Paths of partition files: <year>/<month:02d>/orders.parquet *)

RECURSIVE Digits(_)
\* str(int(n)) for n >= 0, as the sequence of its decimal digits
Digits(n) == IF n < 10 THEN <<n>> ELSE Append(Digits(n \div 10), n % 10)

\* f"{int(n):02d}"
Pad2(n) == IF n < 10 THEN <<0, n>> ELSE Digits(n)

RECURSIVE FromDigits(_)
FromDigits(ds) ==
    IF ds = <<>> THEN 0
    ELSE 10 * FromDigits(SubSeq(ds, 1, Len(ds) - 1)) + ds[Len(ds)]

PartitionPath(year, month) == <<Digits(year), Pad2(month)>>
PathYear(p) == FromDigits(p[1])
PathMonth(p) == FromDigits(p[2])

----------------------------------------------------------------------------
(* save_partitioned (src/src/etl/base.py) *)

PartitionCols == <<"Year", "Month">>

\* lines 105-107: drop the rows that are null in a partition column the
\* frame has
RECURSIVE DropNullPartitions(_, _)
DropNullPartitions(df, i) ==
    IF i > Len(PartitionCols) THEN df
    ELSE LET col == PartitionCols[i]
             NotNull(r) == ~IsNull(r[col])
         IN  DropNullPartitions(
                 IF col \in df.cols THEN Filter(df, NotNull) ELSE df, i + 1)

\* (mutant) unique() taken over Year alone: one month kept per year
UniquePartsByYear(df) ==
    LET all == {<<Val(r.Year), Val(r.Month)>> : r \in DOMAIN df.rows}
    IN  {a \in all : \A b \in all : b[1] = a[1] => a[2] <= b[2]}

\* line 113: the distinct (Year, Month) pairs, and their least element in
\* the sort order
UniqueParts(df) == {<<Val(r.Year), Val(r.Month)>> : r \in DOMAIN df.rows}
PartLess(a, b) == a[1] < b[1] \/ (a[1] = b[1] /\ a[2] < b[2])
FirstPart(ps) == CHOOSE a \in ps : \A b \in ps \ {a} : PartLess(a, b)

\* (mutant) the filter built from the Year column only
PartitionFrameYearOnly(df, part) ==
    LET InYear(r) == r.Year = Some(part[1])
    IN  Filter(df, InYear)

\* line 125: the rows of one partition
PartitionFrame(df, part) ==
    LET InPart(r) == r.Year = Some(part[1]) /\ r.Month = Some(part[2])
    IN  Filter(df, InPart)

\* (mutant) total_saved = len(partition_df) in place of +=
RECURSIVE WritePartsLastCount(_, _, _, _)
WritePartsLastCount(df, parts, store, total) ==
    IF parts = {} THEN [store |-> store, total |-> total]
    ELSE LET part == CHOOSE a \in parts : \A b \in parts \ {a} :
                         a[1] < b[1] \/ (a[1] = b[1] /\ a[2] < b[2])
             pdf  == Filter(df, LAMBDA r : r.Year = Some(part[1])
                                          /\ r.Month = Some(part[2]))
             path == PartitionPath(part[1], part[2])
         IN  WritePartsLastCount(df, parts \ {part},
                 [p \in DOMAIN store \cup {path} |->
                     IF p = path THEN pdf ELSE store[p]],
                 Height(pdf))

\* (mutant) the partition's rows appended to the file already at the path
RECURSIVE WritePartsAppend(_, _, _, _)
WritePartsAppend(df, parts, store, total) ==
    IF parts = {} THEN [store |-> store, total |-> total]
    ELSE LET part == CHOOSE a \in parts : \A b \in parts \ {a} :
                         a[1] < b[1] \/ (a[1] = b[1] /\ a[2] < b[2])
             pdf  == Filter(df, LAMBDA r : r.Year = Some(part[1])
                                          /\ r.Month = Some(part[2]))
             path == PartitionPath(part[1], part[2])
         IN  WritePartsAppend(df, parts \ {part},
                 [p \in DOMAIN store \cup {path} |->
                     IF p # path THEN store[p]
                     ELSE IF p \in DOMAIN store
                     THEN ConcatDiagonal(store[p], pdf) ELSE pdf],
                 total + Height(pdf))

\* lines 116-129: one file written per partition, in sorted order; a file
\* already at the path is replaced
RECURSIVE WriteParts(_, _, _, _)
WriteParts(df, parts, store, total) ==
    IF parts = {} THEN [store |-> store, total |-> total]
    ELSE LET part == FirstPart(parts)
             pdf  == PartitionFrame(df, part)
             path == PartitionPath(part[1], part[2])
         IN  WriteParts(df, parts \ {part},
                 [p \in DOMAIN store \cup {path} |->
                     IF p = path THEN pdf ELSE store[p]],
                 total + Height(pdf))

\* The whole call: [raised, ret, store].  select(partition_cols) raises
\* ColumnNotFoundError when a partition column is missing (line 113).
save_partitioned(df, store) ==
    LET kept == DropNullPartitions(df, 1)
    IN  IF Height(kept) = 0
        THEN [raised |-> FALSE, ret |-> 0, store |-> store]
        ELSE IF ~({"Year", "Month"} \subseteq kept.cols)
        THEN [raised |-> TRUE, ret |-> 0, store |-> store]
        ELSE LET w == WriteParts(kept, UniqueParts(kept), store, 0)
             IN  [raised |-> FALSE, ret |-> w.total, store |-> w.store]

\* load of a directory: recursive glob, diagonal concat of every file
\* (SilverETL.extract, GoldETL.extract)
RECURSIVE ConcatFiles(_, _)
ConcatFiles(store, paths) ==
    IF paths = {} THEN EmptyFrame
    ELSE LET p == CHOOSE q \in paths : TRUE
         IN  ConcatDiagonal(store[p], ConcatFiles(store, paths \ {p}))

LoadPartitions(store) == ConcatFiles(store, DOMAIN store)

----------------------------------------------------------------------------
(* Status normalization (SilverETL._normalize_status, run_simple_etl) *)

\* (mutant) an unmapped status becomes null instead of passing through
NormalizeStatusDropUnmapped(c, mapping) ==
    IF IsNull(c) \/ Val(c) = tEmpty THEN None
    ELSE IF Val(c) \in DOMAIN mapping THEN Some(mapping[Val(c)]) ELSE None

\* map_elements(lambda x: status_mapping.get(x, x) if x else None): polars
\* does not call the lambda on a null cell; the lambda's test `if x` is
\* false for the empty text
NormalizeStatus(c, mapping) ==
    IF IsNull(c) THEN None
    ELSE IF Val(c) = tEmpty THEN None
    ELSE IF Val(c) \in DOMAIN mapping THEN Some(mapping[Val(c)])
    ELSE c

\* _normalize_status: the column Status_Normalized added when the frame
\* has a Status column
_normalize_status(df, mapping) ==
    IF "Status" \notin df.cols THEN df
    ELSE LET N(r) == NormalizeStatus(r.Status, mapping)
         IN  WithColumn(df, "Status_Normalized", N)

----------------------------------------------------------------------------
(* Text helpers *)

IsSpace(ch) == ch = " "

RECURSIVE StripLeft(_)
StripLeft(t) ==
    IF t # <<>> /\ IsSpace(Head(t)) THEN StripLeft(Tail(t)) ELSE t

RECURSIVE StripRight(_)
StripRight(t) ==
    IF t # <<>> /\ IsSpace(t[Len(t)])
    THEN StripRight(SubSeq(t, 1, Len(t) - 1)) ELSE t

\* str.strip_chars() on a cell: null stays null
StripCell(c) == IF IsNull(c) THEN None ELSE Some(StripLeft(StripRight(Val(c))))

\* str.starts_with(prefix) on a text
StartsWith(t, prefix) ==
    Len(t) >= Len(prefix) /\ SubSeq(t, 1, Len(prefix)) = prefix

----------------------------------------------------------------------------
(* Sources, adapters and configuration *)

\* BRONZE_REGISTRY / SILVER_REGISTRY: the adapter of a source; a source
\* that is not registered gets the base class
Adapter(source) ==
    CASE source = "shopee" -> "shopee"
      [] source \in {"website_suppersport", "website_columbia",
                     "website_underamour"} -> "website"
      [] OTHER -> "base"

\* pl.lit(self.source_name): the source name as a text of the Source column
SourceText(source) ==
    CASE source = "shopee" -> <<"s", "h", "o", "p", "e", "e">>
      [] source = "website_columbia" ->
            <<"w", "e", "b", "s", "i", "t", "e", "_",
              "c", "o", "l", "u", "m", "b", "i", "a">>
      [] source = "alpha" -> <<"a", "l", "p", "h", "a">>

\* the columns of text type (Utf8)
TextCols == {"Order ID", "Status", "Status_Normalized", "Reason cancelled",
             "Source", "_source_file"}

\* the columns whose name starts with "_"
InternalCols == {"_source_file"}

\* config.status_mapping: the mapping of the configuration in use
ConfigMapping ==
    [t \in {tCompleted, tDelivered, tCancelled} |->
        IF t = tCancelled THEN tCancelled ELSE tDelivered]

----------------------------------------------------------------------------
(* Bronze stage (src/src/etl/bronze) *)

\* Date.dt.year() / Date.dt.month(): a date is <<year, month, day>>
DateYear(c) == IF IsNull(c) THEN None ELSE Some(Val(c)[1])
DateMonth(c) == IF IsNull(c) THEN None ELSE Some(Val(c)[2])

\* a decimal digit and its value
DigitChars == <<"0", "1", "2", "3", "4", "5", "6", "7", "8", "9">>
IsDigit(ch) == \E i \in DOMAIN DigitChars : DigitChars[i] = ch
DigitVal(ch) == (CHOOSE i \in DOMAIN DigitChars : DigitChars[i] = ch) - 1

\* the number of leading digits of t, at most n
RECURSIVE LeadingDigits(_, _)
LeadingDigits(t, n) ==
    IF n = 0 \/ t = <<>> \/ ~IsDigit(Head(t)) THEN 0
    ELSE 1 + LeadingDigits(Tail(t), n - 1)

\* the number written by a sequence of digits
RECURSIVE Number(_)
Number(ds) ==
    IF ds = <<>> THEN 0
    ELSE 10 * Number(SubSeq(ds, 1, Len(ds) - 1)) + DigitVal(ds[Len(ds)])

\* lines 20-26: date_formats, in the order they are tried; a format is
\* its fields and separators
DateFormats ==
    <<<<"%m", "-", "%d", "-", "%y">>, <<"%m", "/", "%d", "/", "%y">>,
      <<"%Y", "-", "%m", "-", "%d">>, <<"%d", "-", "%m", "-", "%Y">>,
      <<"%m", "-", "%d", "-", "%Y">>>>

\* the digits a field takes: %m and %d one or two, %y two, %Y four
MinWidth(f) == CASE f = "%Y" -> 4 [] f = "%y" -> 2 [] OTHER -> 1
MaxWidth(f) == IF f = "%Y" THEN 4 ELSE 2

\* the fields read so far with the field f read as the number v; a year
\* of two digits below 69 is of this century
SetField(acc, f, v) ==
    CASE f = "%m" -> [acc EXCEPT !.m = v]
      [] f = "%d" -> [acc EXCEPT !.d = v]
      [] f = "%y" -> [acc EXCEPT !.y = IF v < 69 THEN 2000 + v ELSE 1900 + v]
      [] f = "%Y" -> [acc EXCEPT !.y = v]

\* strptime scanning the text t with the rest of a format: the fields read
\* so far are in acc; the whole text has to be used up.  ScanField reads
\* the field at the head of the format from the n leading digits of t.
RECURSIVE Scan(_, _, _)
RECURSIVE ScanField(_, _, _, _)
ScanField(fmt, t, acc, n) ==
    IF n < MinWidth(Head(fmt)) THEN [acc EXCEPT !.ok = FALSE]
    ELSE Scan(Tail(fmt), SubSeq(t, n + 1, Len(t)),
              SetField(acc, Head(fmt), Number(SubSeq(t, 1, n))))

Scan(fmt, t, acc) ==
    IF fmt = <<>> THEN [acc EXCEPT !.ok = (t = <<>>)]
    ELSE IF Head(fmt) \in {"-", "/"}
    THEN IF t # <<>> /\ Head(t) = Head(fmt)
         THEN Scan(Tail(fmt), Tail(t), acc)
         ELSE [acc EXCEPT !.ok = FALSE]
    ELSE ScanField(fmt, t, acc, LeadingDigits(t, MaxWidth(Head(fmt))))

DaysIn(y, m) ==
    CASE m \in {4, 6, 9, 11} -> 30
      [] m = 2 -> IF y % 4 = 0 /\ (y % 100 # 0 \/ y % 400 = 0) THEN 29
                  ELSE 28
      [] OTHER -> 31

\* str.strptime(fmt, strict=False) on one cell: the date, or null when the
\* text does not match the format or is no date
DateOfFields(p) ==
    IF p.ok /\ p.m \in 1..12 /\ p.d \in 1..DaysIn(p.y, p.m)
    THEN Some(<<p.y, p.m, p.d>>) ELSE None

ParseCell(fmt, c) ==
    IF IsNull(c) THEN None
    ELSE DateOfFields(Scan(fmt, Val(c),
                           [ok |-> TRUE, y |-> 0, m |-> 0, d |-> 0]))

\* the Date column parsed with format number i
ParseColumn(df, i) ==
    LET F(r) == ParseCell(DateFormats[i], r.Date)
    IN  WithColumn(df, "Date", F)

NullDates(df) == LET P(r) == IsNull(r.Date) IN CountRows(df.rows, P)

\* lines 39-41: the cast of a string column that no format parses: every
\* cell becomes null (the texts drawn are no dates under any pattern)
CastToDate(df) ==
    LET F(r) == None
    IN  WithColumn(df, "Date", F)

\* the loop of lines 28-37.
RECURSIVE TryFormats(_, _)
Accept(df, i, parsed) ==
    IF NullDates(parsed) < Height(parsed) THEN parsed
    ELSE TryFormats(df, i + 1)
TryFormats(df, i) ==
    IF i > Len(DateFormats) THEN CastToDate(df)
    ELSE Accept(df, i, ParseColumn(df, i))

\* (mutant) every cell parsed with the first format that parses it
parse_date_column_per_cell(df, text) ==
    IF "Date" \notin df.cols \/ ~text THEN df
    ELSE LET F(r) ==
                 IF \E i \in DOMAIN DateFormats :
                        ~IsNull(ParseCell(DateFormats[i], r.Date))
                 THEN ParseCell(DateFormats[
                          CHOOSE i \in DOMAIN DateFormats :
                              /\ ~IsNull(ParseCell(DateFormats[i], r.Date))
                              /\ \A j \in 1..(i - 1) :
                                    IsNull(ParseCell(DateFormats[j], r.Date))],
                          r.Date)
                 ELSE None
         IN  WithColumn(df, "Date", F)

\* _parse_date_column: a column of typed dates is kept; a string column is
\* parsed with the first format that leaves fewer nulls than rows
parse_date_column(df, text) ==
    IF "Date" \notin df.cols \/ ~text THEN df ELSE TryFormats(df, 1)

\* BronzeETL.extract: every file read in name order, tagged with its name
\* and concatenated; no file gives the empty frame; a file that cannot be
\* read makes pl.read_excel raise
RECURSIVE ReadFiles(_, _)
ReadFiles(files, names) ==
    IF names = {} THEN EmptyFrame
    ELSE LET n == CHOOSE x \in names : TRUE
             Tag(r) == Some(n)
             df == WithColumn(files[n].df, "_source_file", Tag)
         IN  ConcatDiagonal(
                 IF "Date" \in df.cols
                 THEN parse_date_column(df, files[n].text) ELSE df,
                 ReadFiles(files, names \ {n}))

BronzeExtract(files) ==
    IF DOMAIN files = {} THEN [raised |-> FALSE, df |-> EmptyFrame]
    ELSE IF \E n \in DOMAIN files : ~files[n].ok
    THEN [raised |-> TRUE, df |-> EmptyFrame]
    ELSE [raised |-> FALSE, df |-> ReadFiles(files, DOMAIN files)]

\* BronzeETL.transform
BronzeBaseTransform(df, source) ==
    IF Height(df) = 0 THEN df
    ELSE LET d1 == IF "Date" \in df.cols
                   THEN parse_date_column(df, FALSE) ELSE df
             Y(r) == DateYear(r.Date)
             M(r) == DateMonth(r.Date)
             d2 == IF "Date" \in d1.cols
                   THEN WithColumn(WithColumn(d1, "Year", Y), "Month", M)
                   ELSE d1
             S(r) == Some(SourceText(source))
         IN  WithColumn(d2, "Source", S)

\* df.rename({old: new})
Rename(df, old, new) ==
    LET cs == (df.cols \ {old}) \cup {new}
        W(r) == [c \in cs |-> IF c = new THEN r[old] ELSE r[c]]
    IN  [cols |-> cs, rows |-> BagOfAll(W, df.rows)]

\* WebsiteBronzeETL.transform, lines 21-31: the native column names
WebsiteColumns ==
    <<<<"Order Date", "Date">>, <<"Order No", "Order ID">>,
      <<"Order Status", "Status">>, <<"Cancel Reason", "Reason cancelled">>>>

RECURSIVE RenameAll(_, _, _)
RenameAll(df, mapping, i) ==
    IF i > Len(mapping) THEN df
    ELSE RenameAll(IF mapping[i][1] \in df.cols
                   THEN Rename(df, mapping[i][1], mapping[i][2]) ELSE df,
                   mapping, i + 1)

\* the transform of the source's adapter: the base transform first, then
\* the adapter's renames (ShopeeBronzeETL maps every name to itself)
BronzeTransform(df, source) ==
    IF Adapter(source) = "website"
    THEN RenameAll(BronzeBaseTransform(df, source), WebsiteColumns, 1)
    ELSE BronzeBaseTransform(df, source)

\* BronzeETL.load / SilverETL.load: nothing is written for an empty frame
StageLoad(df, store) ==
    IF Height(df) = 0 THEN [raised |-> FALSE, store |-> store]
    ELSE LET out == save_partitioned(df, store)
         IN  [raised |-> out.raised, store |-> out.store]

\* BaseETL.run of the Bronze adapter of a source: extract, transform, load
BronzeRun(files, source, store) ==
    LET ex == BronzeExtract(files)
        df == BronzeTransform(ex.df, source)
        ld == StageLoad(df, store)
    IN  IF ex.raised
        THEN [raised |-> TRUE, input |-> EmptyFrame, df |-> EmptyFrame,
              store |-> store]
        ELSE [raised |-> ld.raised, input |-> ex.df, df |-> df,
              store |-> ld.store]

----------------------------------------------------------------------------
(* Silver stage (src/src/etl/silver) *)

\* SilverETL.extract
SilverExtract(store) ==
    IF DOMAIN store = {} THEN EmptyFrame ELSE LoadPartitions(store)

\* _clean_strings: every text column stripped
_clean_strings(df) ==
    LET W(r) == [c \in df.cols |->
                    IF c \in TextCols THEN StripCell(r[c]) ELSE r[c]]
    IN  [cols |-> df.cols, rows |-> BagOfAll(W, df.rows)]

\* (mutant) validation that keeps the rows with a null Date
BaseValidateKeepNullDate(df) ==
    LET HasYear(r) == ~IsNull(r.Year)
    IN  IF "Year" \in df.cols THEN Filter(df, HasYear) ELSE df

\* SilverETL._validate
BaseValidate(df) ==
    LET HasDate(r) == ~IsNull(r.Date)
        HasYear(r) == ~IsNull(r.Year)
        d1 == IF "Date" \in df.cols THEN Filter(df, HasDate) ELSE df
    IN  IF "Year" \in d1.cols THEN Filter(d1, HasYear) ELSE d1

\* (mutant) the Shopee hook without the call of the base validation
ShopeeValidateWithoutBase(df) ==
    LET NotTest(r) == ~IsNull(r["Order ID"])
                      /\ ~StartsWith(Val(r["Order ID"]), tTEST)
    IN  IF "Order ID" \in df.cols THEN Filter(df, NotTest) ELSE df

\* ShopeeSilverETL._validate: a row whose Order ID is null makes the
\* predicate null, and filter drops it
ShopeeValidate(df) ==
    LET d1 == BaseValidate(df)
        NotTest(r) == ~IsNull(r["Order ID"])
                      /\ ~StartsWith(Val(r["Order ID"]), tTEST)
    IN  IF "Order ID" \in d1.cols THEN Filter(d1, NotTest) ELSE d1

\* WebsiteSilverETL._validate
WebsiteValidate(df) == BaseValidate(df)

Validate(df, source) ==
    CASE Adapter(source) = "shopee" -> ShopeeValidate(df)
      [] Adapter(source) = "website" -> WebsiteValidate(df)
      [] OTHER -> BaseValidate(df)

\* _select_standard_columns: the standard columns present, then every other
\* column whose name does not start with "_"
_select_standard_columns(df) ==
    LET cs == df.cols \ InternalCols
        W(r) == [c \in cs |-> r[c]]
    IN  [cols |-> cs, rows |-> BagOfAll(W, df.rows)]

\* SilverETL.transform (the subclasses call it unchanged)
SilverTransform(df, source) ==
    IF Height(df) = 0 THEN df
    ELSE _select_standard_columns(
             Validate(_clean_strings(_normalize_status(df, ConfigMapping)),
                      source))

SilverRun(bronzeStore, source, store) ==
    LET ex == SilverExtract(bronzeStore)
        df == SilverTransform(ex, source)
        ld == StageLoad(df, store)
    IN  [raised |-> ld.raised, input |-> ex, df |-> df, store |-> ld.store]

----------------------------------------------------------------------------
(* Gold stage (src/src/etl/gold/combine.py) *)

\* GoldETL.extract: the Silver partitions of every listed source that has
\* some, concatenated
RECURSIVE GoldExtract(_, _, _)
GoldExtract(stores, sources, i) ==
    IF i > Len(sources) THEN EmptyFrame
    ELSE LET rest == GoldExtract(stores, sources, i + 1)
             st == stores[sources[i]]
         IN  IF DOMAIN st = {} THEN rest
             ELSE ConcatDiagonal(LoadPartitions(st), rest)

RequiredCols == {"Date", "Source", "Order ID", "Status", "Status_Normalized",
                 "Year", "Month"}

\* GoldETL.transform: the required columns that are missing added as null
GoldTransform(df) ==
    IF Height(df) = 0 THEN df
    ELSE [cols |-> df.cols \cup RequiredCols,
          rows |-> LET W(r) == Widen(r, df.cols \cup RequiredCols)
                   IN  BagOfAll(W, df.rows)]

\* (mutant) the rate cut to one decimal instead of rounded
RateTruncated(x, total) == (1000 * x) \div total

\* (x / total * 100).round(1), in tenths of a percent
Rate(x, total) == (2000 * x + total) \div (2 * total)

\* (mutant) every row that is not Delivered, Cancelled or Returned counted
\* as failed
MetricsRowUnknownAsFailed(df, key) ==
    LET InGroup(r) == <<r.Source, r.Year, r.Month>> = key
        grp == FilterRows(df.rows, InGroup)
        Is(t) == LET P(r) == r.Status_Normalized = Some(t)
                 IN  CountRows(grp, P)
        total == BagCardinality(grp)
    IN  [Source |-> key[1], Year |-> key[2], Month |-> key[3],
         total_orders |-> total,
         delivered |-> Is(tDelivered), cancelled |-> Is(tCancelled),
         returned |-> Is(tReturned),
         failed |-> total - Is(tDelivered) - Is(tCancelled) - Is(tReturned),
         delivery_rate |-> (2000 * Is(tDelivered) + total) \div (2 * total),
         cancel_rate |-> (2000 * Is(tCancelled) + total) \div (2 * total)]

\* one row of monthly_by_source for the group key <<Source, Year, Month>>
MetricsRow(df, key) ==
    LET status == IF "Status_Normalized" \in df.cols
                  THEN "Status_Normalized" ELSE "Status"
        InGroup(r) == <<r.Source, r.Year, r.Month>> = key
        grp == FilterRows(df.rows, InGroup)
        Is(t) == LET P(r) == r[status] = Some(t) IN CountRows(grp, P)
        total == BagCardinality(grp)
    IN  [Source |-> key[1], Year |-> key[2], Month |-> key[3],
         total_orders |-> total,
         delivered |-> Is(tDelivered), cancelled |-> Is(tCancelled),
         returned |-> Is(tReturned), failed |-> Is(tFailed),
         delivery_rate |-> Rate(Is(tDelivered), total),
         cancel_rate |-> Rate(Is(tCancelled), total)]

\* (mutant) the groups of monthly_by_source with a Source = "All" group
\* (every source of the month) added
tAll == <<"A", "l", "l">>
MonthlyMetricsWithAll(df) ==
    LET row(key) ==
            LET status == "Status_Normalized"
                InGroup(r) == <<r.Year, r.Month>> = <<key[2], key[3]>>
                              /\ (key[1] = Some(tAll) \/ r.Source = key[1])
                grp == FilterRows(df.rows, InGroup)
                Is(t) == LET P(r) == r[status] = Some(t)
                         IN  CountRows(grp, P)
                total == BagCardinality(grp)
            IN  [Source |-> key[1], Year |-> key[2], Month |-> key[3],
                 total_orders |-> total,
                 delivered |-> Is(tDelivered), cancelled |-> Is(tCancelled),
                 returned |-> Is(tReturned), failed |-> Is(tFailed),
                 delivery_rate |-> Rate(Is(tDelivered), total),
                 cancel_rate |-> Rate(Is(tCancelled), total)]
    IN  {row(<<r.Source, r.Year, r.Month>>) : r \in DOMAIN df.rows}
        \cup {row(<<Some(tAll), r.Year, r.Month>>) : r \in DOMAIN df.rows}

\* _create_metrics, lines 96-127: group_by(Source, Year, Month)
MonthlyMetrics(df) ==
    {MetricsRow(df, <<r.Source, r.Year, r.Month>>) : r \in DOMAIN df.rows}

\* _create_metrics, lines 134-138: the rows with status Cancelled and a
\* reason, grouped by (Year, Month, Reason cancelled) and counted
CancelledWithReason(df) ==
    LET status == IF "Status_Normalized" \in df.cols
                  THEN "Status_Normalized" ELSE "Status"
        P(r) == r[status] = Some(tCancelled)
                /\ ~IsNull(r["Reason cancelled"])
    IN  FilterRows(df.rows, P)

\* (mutant) the reasons of every row counted, whatever its status
ReasonGroupsAnyStatus(df) ==
    LET P(r) == ~IsNull(r["Reason cancelled"])
        sel == FilterRows(df.rows, P)
        Key(r) == <<r.Year, r.Month, r["Reason cancelled"]>>
        Count(k) == LET Q(r) == Key(r) = k IN CountRows(sel, Q)
    IN  {[Year |-> Key(r)[1], Month |-> Key(r)[2], Reason |-> Key(r)[3],
          count |-> Count(Key(r))] : r \in DOMAIN sel}

ReasonGroups(df) ==
    LET sel == CancelledWithReason(df)
        Key(r) == <<r.Year, r.Month, r["Reason cancelled"]>>
        Count(k) == LET Q(r) == Key(r) = k IN CountRows(sel, Q)
    IN  {[Year |-> Key(r)[1], Month |-> Key(r)[2], Reason |-> Key(r)[3],
          count |-> Count(Key(r))] : r \in DOMAIN sel}

\* line 139: sort(["Year", "Month", "count"], descending=[False, False,
\* True]): a comes no later than b
ReasonOrder(a, b) ==
    \/ Val(a.Year) < Val(b.Year)
    \/ /\ a.Year = b.Year
       /\ \/ Val(a.Month) < Val(b.Month)
          \/ a.Month = b.Month /\ a.count >= b.count

\* every arrangement of a set of rows as a sequence
RECURSIVE Arrangements(_)
Arrangements(S) ==
    IF S = {} THEN {<<>>}
    ELSE UNION {{<<x>> \o q : q \in Arrangements(S \ {x})} : x \in S}

\* the tables the sort can produce: group_by gives the groups in no fixed
\* order, so groups of one month with equal counts come in any order
SortedReasons(groups) ==
    {q \in Arrangements(groups) :
        \A i, j \in DOMAIN q : i < j => ReasonOrder(q[i], q[j])}

\* GoldETL.load: nothing is written for an empty frame; otherwise the
\* combined partitions, monthly_by_source.parquet (Some(table)) and, when
\* the frame has the column Reason cancelled, cancellation_reasons.parquet
GoldLoad(df, store, monthlyFile) ==
    IF Height(df) = 0
    THEN [raised |-> FALSE, store |-> store, monthly |-> monthlyFile,
          writesReasons |-> FALSE, groups |-> {}]
    ELSE LET out == save_partitioned(df, store)
         IN  IF out.raised
             THEN [raised |-> TRUE, store |-> out.store,
                   monthly |-> monthlyFile,
                   writesReasons |-> FALSE, groups |-> {}]
             ELSE [raised |-> FALSE, store |-> out.store,
                   monthly |-> Some(MonthlyMetrics(df)),
                   writesReasons |-> "Reason cancelled" \in df.cols,
                   groups |-> IF "Reason cancelled" \in df.cols
                              THEN ReasonGroups(df) ELSE {}]

GoldRun(stores, sources, store, monthlyFile) ==
    LET ex == GoldExtract(stores, sources, 1)
        df == GoldTransform(ex)
        ld == GoldLoad(df, store, monthlyFile)
    IN  [raised |-> ld.raised, input |-> ex, df |-> df, store |-> ld.store,
         monthly |-> ld.monthly, writesReasons |-> ld.writesReasons,
         groups |-> ld.groups]

----------------------------------------------------------------------------
(* run_pipeline and run_source_pipeline (src/src/etl/pipeline.py) *)

Sources == {"shopee", "alpha"}
AllLayers == {"bronze", "silver", "gold"}
NoStep == [stage |-> "none", source |-> "none", input |-> EmptyFrame,
           df |-> EmptyFrame, raised |-> FALSE]
NoResults == [sources |-> <<>>, gold_rows |-> None, error |-> FALSE]

\* run_source_pipeline, lines 85-97: Bronze when asked for, then Silver
StepsOf(source, ls) ==
    (IF "bronze" \in ls THEN <<<<"bronze", source>>>> ELSE <<>>)
    \o (IF "silver" \in ls THEN <<<<"silver", source>>>> ELSE <<>>)

\* (mutant) the Gold run placed inside the loop over the sources
RECURSIVE ScheduleGoldInLoop(_, _, _)
ScheduleGoldInLoop(sources, ls, i) ==
    IF i > Len(sources) THEN <<>>
    ELSE StepsOf(sources[i], ls)
         \o (IF "gold" \in ls THEN <<<<"gold", "all_sources">>>> ELSE <<>>)
         \o ScheduleGoldInLoop(sources, ls, i + 1)

\* run_pipeline, lines 137-152: the stage runs of one call in the order
\* the code makes them: every source in list order, then Gold
RECURSIVE Schedule(_, _, _)
Schedule(sources, ls, i) ==
    IF i > Len(sources)
    THEN IF "gold" \in ls THEN <<<<"gold", "all_sources">>>> ELSE <<>>
    ELSE StepsOf(sources[i], ls) \o Schedule(sources, ls, i + 1)

Steps == Schedule(srcs, layers, 1)

\* lines 159-166: the summary line of a source formats silver with ":,"
\* whenever bronze is an int; the text "N/A" cannot be formatted so
SummaryRaises(res) ==
    \E s \in DOMAIN res.sources :
        /\ "bronze_rows" \in DOMAIN res.sources[s]
        /\ "silver_rows" \notin DOMAIN res.sources[s]

\* a dict with one more key
Put(d, k, v) == [x \in DOMAIN d \cup {k} |-> IF x = k THEN v ELSE d[x]]

\* the bookkeeping after a stage run that did not raise: the source's dict
\* is stored in results when its last step is done (line 141), and the call
\* returns after the last step
Advance(newCur, goldRows) ==
    LET step == Steps[pos]
        sourceDone == step[1] # "gold"
                      /\ (pos = Len(Steps) \/ Steps[pos + 1][2] # step[2])
        res == [sources |-> IF sourceDone
                            THEN Put(results.sources, step[2], newCur)
                            ELSE results.sources,
                gold_rows |-> goldRows, error |-> FALSE]
    IN  /\ results' = res
        /\ cur' = IF sourceDone THEN <<>> ELSE newCur
        /\ pos' = pos + 1
        /\ pc' = IF pos < Len(Steps) THEN "running"
                  ELSE IF SummaryRaises(res) THEN "raised" ELSE "done"

\* an exception leaves run_pipeline: nothing catches it
Propagate ==
    /\ pc' = "raised"
    /\ UNCHANGED <<pos, cur, results>>

\* ETLConfig.from_yaml (base.py, lines 25-26): open(config_path) is not
\* guarded, so a missing file raises FileNotFoundError.  run_source_pipeline
\* calls it before the first stage of a source (line 78) and run_pipeline
\* before the Gold run (line 149).
from_yaml_raises == ~cfg

\* run_pipeline is called: lines 117-134.  With stage runs to make, the
\* first thing the call does is read the configuration; when that raises,
\* nothing catches it and no stage run is started.
Call ==
    /\ pc \in {"idle", "done", "raised"}
    /\ runs < MaxRuns
    /\ runs' = runs + 1
    /\ snap' = IF pc = "done" /\ ~dirty /\ ~results.error
               THEN Some(<<bronze, silver, gold>>) ELSE None
    /\ dirty' = FALSE
    /\ trace' = <<>>
    /\ cur' = <<>>
    /\ last' = NoStep
    /\ IF srcs = <<>>
       THEN /\ results' = [NoResults EXCEPT !.error = TRUE]
            /\ pc' = "done"
            /\ pos' = 0
       ELSE /\ results' = NoResults
            /\ pc' = IF Steps = <<>> THEN "done"
                     ELSE IF from_yaml_raises THEN "raised" ELSE "running"
            /\ pos' = 1
    /\ UNCHANGED <<raw, bronze, silver, gold, monthly, reasons, srcs,
                   layers>>
    /\ UNCHANGED nonPipeVars

\* (mutant) a Bronze run whose output directory lacks the source name: the
\* files are written under the Bronze directory of every source
BronzeStepSharedDir ==
    /\ pc = "running"
    /\ Steps[pos][1] = "bronze"
    /\ \E s \in {Steps[pos][2]} :
       \E out \in {BronzeRun(raw[s], s, bronze[s])} :
           /\ bronze' = [x \in DOMAIN bronze |-> out.store]
           /\ trace' = Append(trace, Steps[pos])
           /\ last' = [stage |-> "bronze", source |-> s, input |-> out.input,
                       df |-> out.df, raised |-> out.raised]
           /\ IF out.raised THEN Propagate
              ELSE Advance(Put(Put(cur, "source", s), "bronze_rows",
                               Height(out.df)),
                           results.gold_rows)
    /\ UNCHANGED <<raw, silver, gold, monthly, reasons, srcs, layers, runs,
                   snap, dirty>>
    /\ UNCHANGED nonPipeVars

\* the Bronze run of a source: get_bronze_etl(source, config).run()
BronzeStep ==
    /\ pc = "running"
    /\ Steps[pos][1] = "bronze"
    /\ \E s \in {Steps[pos][2]} :
       \E out \in {BronzeRun(raw[s], s, bronze[s])} :
           /\ bronze' = [bronze EXCEPT ![s] = out.store]
           /\ trace' = Append(trace, Steps[pos])
           /\ last' = [stage |-> "bronze", source |-> s, input |-> out.input,
                       df |-> out.df, raised |-> out.raised]
           /\ IF out.raised THEN Propagate
              ELSE Advance(Put(Put(cur, "source", s), "bronze_rows",
                               Height(out.df)),
                           results.gold_rows)
    /\ UNCHANGED <<raw, silver, gold, monthly, reasons, srcs, layers, runs,
                   snap, dirty>>
    /\ UNCHANGED nonPipeVars

\* the Silver run of a source: get_silver_etl(source, config).run()
SilverStep ==
    /\ pc = "running"
    /\ Steps[pos][1] = "silver"
    /\ \E s \in {Steps[pos][2]} :
       \E out \in {SilverRun(bronze[s], s, silver[s])} :
           /\ silver' = [silver EXCEPT ![s] = out.store]
           /\ trace' = Append(trace, Steps[pos])
           /\ last' = [stage |-> "silver", source |-> s, input |-> out.input,
                       df |-> out.df, raised |-> out.raised]
           /\ IF out.raised THEN Propagate
              ELSE Advance(Put(Put(cur, "source", s), "silver_rows",
                               Height(out.df)),
                           results.gold_rows)
    /\ UNCHANGED <<raw, bronze, gold, monthly, reasons, srcs, layers, runs,
                   snap, dirty>>
    /\ UNCHANGED nonPipeVars

\* GoldETL.extract, line 21: silver_base = Path("data/silver"), whatever
\* the output root of the configuration is
SilverBase == IF outroot = "data" THEN silver ELSE dsilver

\* the Gold run: GoldETL(config, silver_sources=sources).run()
GoldStep ==
    /\ pc = "running"
    /\ Steps[pos][1] = "gold"
    /\ \E out \in {GoldRun(SilverBase, srcs, gold, monthly)} :
           /\ gold' = out.store
           /\ monthly' = out.monthly
           /\ IF out.writesReasons
              THEN \E q \in SortedReasons(out.groups) : reasons' = Some(q)
              ELSE reasons' = reasons
           /\ trace' = Append(trace, Steps[pos])
           /\ last' = [stage |-> "gold", source |-> "all_sources",
                       input |-> out.input, df |-> out.df,
                       raised |-> out.raised]
           /\ IF out.raised THEN Propagate
              ELSE Advance(cur, Some(Height(out.df)))
    /\ UNCHANGED <<raw, bronze, silver, srcs, layers, runs, snap, dirty>>
    /\ UNCHANGED nonPipeVars

----------------------------------------------------------------------------
(* Input pools of save_partitioned *)

YearCells == {None, Some(2024)}
MonthCells == {None, Some(1), Some(12)}

\* every bag of at most n rows drawn from the set rs
RECURSIVE BagsUpTo(_, _)
BagsUpTo(rs, n) ==
    IF n = 0 THEN {EmptyBag}
    ELSE LET smaller == BagsUpTo(rs, n - 1)
         IN  smaller \cup {b (+) SetToBag({r}) : b \in smaller, r \in rs}

StoreRows == [Year : YearCells, Month : MonthCells, Qty : {Some(1)}]
\* frames that lack the Month column
StoreRowsNoMonth == [Year : YearCells, Qty : {Some(1)}]
StoreFrames ==
    {[cols |-> {"Year", "Month", "Qty"}, rows |-> b] :
        b \in BagsUpTo(StoreRows, MaxStoreRows)}
    \cup {[cols |-> {"Year", "Qty"}, rows |-> b] :
        b \in BagsUpTo(StoreRowsNoMonth, MaxStoreRows)}

----------------------------------------------------------------------------
(* Specification SpecStore: save_partitioned called on one directory *)

IdleStore ==
    /\ dir = <<>>
    /\ before = <<>>
    /\ arg = EmptyFrame
    /\ ret = [raised |-> FALSE, value |-> 0]
    /\ calls = 0

IdleNorm ==
    /\ nraw = None
    /\ nmap = <<>>
    /\ nout = None
    /\ ndone = FALSE

IdleParse ==
    /\ pin = EmptyFrame
    /\ ptext = FALSE
    /\ pout = EmptyFrame
    /\ pdone = FALSE

NoOutcome == [raised |-> "none", file_errors |-> <<>>, input_files |-> 0,
              files_loaded |-> 0, total_rows |-> 0, saved_rows |-> 0,
              null_dates |-> 0]

IdleSimple ==
    /\ cfg = TRUE
    /\ sin = <<>>
    /\ sdir = <<>>
    /\ sret = NoOutcome
    /\ sdone = FALSE

IdleExport ==
    /\ xdirs = <<>>
    /\ xall = <<>>
    /\ xout = None
    /\ xraised = FALSE
    /\ xdone = FALSE

IdleServer ==
    /\ servers = <<>>
    /\ gsrv = 0
    /\ sarg = <<>>
    /\ sold = 0
    /\ sgot = 0
    /\ srun = FALSE
    /\ snew = 0
    /\ scalls = 0

IdleValid ==
    /\ vin = EmptyFrame
    /\ vsrc = "none"
    /\ vout = EmptyFrame
    /\ vdone = FALSE

IdleRoot ==
    /\ outroot = "data"
    /\ dsilver = <<>>

NoWrite == [run |-> 0, stage |-> "none", path |-> <<>>, frame |-> EmptyFrame]

IdleRace ==
    /\ rin = <<>>
    /\ rbronze = <<>>
    /\ rsilver = <<>>
    /\ rpc = <<>>
    /\ rtodo = <<>>
    /\ rbuf = <<>>
    /\ rlast = NoWrite

IdlePipe ==
    /\ raw = [s \in Sources |-> <<>>]
    /\ bronze = [s \in Sources |-> <<>>]
    /\ silver = [s \in Sources |-> <<>>]
    /\ gold = <<>>
    /\ monthly = None
    /\ reasons = None
    /\ srcs = <<>>
    /\ layers = AllLayers
    /\ pc = "idle"
    /\ pos = 0
    /\ cur = <<>>
    /\ results = NoResults
    /\ trace = <<>>
    /\ last = NoStep
    /\ runs = 0
    /\ snap = None
    /\ dirty = FALSE

InitStore ==
    /\ IdleRace
    /\ IdleNorm /\ IdlePipe /\ IdleParse /\ IdleSimple /\ IdleExport /\ IdleServer /\ IdleValid /\ IdleRoot
    /\ dir = <<>>
    /\ before = <<>>
    /\ arg = EmptyFrame
    /\ ret = [raised |-> FALSE, value |-> 0]
    /\ calls = 0

CallSavePartitioned ==
    /\ calls < MaxCalls
    /\ \E df \in StoreFrames :
        LET out == save_partitioned(df, dir)
        IN  /\ arg' = df
            /\ before' = dir
            /\ dir' = out.store
            /\ ret' = [raised |-> out.raised, value |-> out.ret]
            /\ calls' = calls + 1
    /\ UNCHANGED nonStoreVars

NextStore == CallSavePartitioned

SpecStore == InitStore /\ [][NextStore]_vars

----------------------------------------------------------------------------
(* Claims about the partitioned store, checked under SpecStore *)

HasPartitionCols(df) == {"Year", "Month"} \subseteq df.cols
BothKeys(r) == ~IsNull(r.Year) /\ ~IsNull(r.Month)
\* the rows of the last call's input that have both keys, and where they go
ValidRows == FilterRows(arg.rows, BothKeys)
RowPath(r) == PartitionPath(Val(r.Year), Val(r.Month))
ValidPaths == {RowPath(r) : r \in DOMAIN ValidRows}
RowsOfPath(p) == LET Here(r) == RowPath(r) = p IN FilterRows(ValidRows, Here)

\* C1: after any sequence of save_partitioned calls on one directory, every
\* partition file <year>/<month:02d>/orders.parquet holds only rows whose
\* Year and Month equal the year and month read back from the file's path.
C1_RowsMatchPath ==
    \A p \in DOMAIN dir : \A r \in DOMAIN dir[p].rows :
        /\ r.Year = Some(PathYear(p))
        /\ r.Month = Some(PathMonth(p))

\* C1 witness: a second call replaced a file and wrote another partition
\* beside it.
C1_Witness ==
    /\ calls = 2
    /\ Cardinality(DOMAIN dir) = 2
    /\ \E p \in DOMAIN before : dir[p] # before[p]

C8_WitnessNothingWritten ==
    /\ calls > 0 /\ HasPartitionCols(arg)
    /\ arg.rows # EmptyBag /\ ValidRows = EmptyBag
    /\ before # <<>> /\ dir = before /\ ret.value = 0
----------------------------------------------------------------------------
(* Specification SpecNorm: the normalization of one Status cell *)

StatusTexts == {tEmpty, tCompleted, tCancelled, tWeird}
StatusCells == {None} \cup {Some(t) : t \in StatusTexts}
MappingKeys == {tEmpty, tCompleted, tCancelled}
MappingValues == {tDelivered, tCancelled}
Mappings == UNION {[ks -> MappingValues] : ks \in SUBSET MappingKeys}

InitNorm ==
    /\ IdleRace
    /\ IdleStore /\ IdlePipe /\ IdleParse /\ IdleSimple /\ IdleExport /\ IdleServer /\ IdleValid /\ IdleRoot
    /\ nraw \in StatusCells
    /\ nmap \in Mappings
    /\ nout = None
    /\ ndone = FALSE

Normalize ==
    /\ ~ndone
    /\ nout' = NormalizeStatus(nraw, nmap)
    /\ ndone' = TRUE
    /\ UNCHANGED <<nraw, nmap, nonNormVars>>

NextNorm == Normalize

SpecNorm == InitNorm /\ [][NextNorm]_vars

\* C4 (as claimed): normalization yields M[v] when v is a key of M, v itself
\* when v is any non-null text that is not a key of M, the empty text
\* included, and null when v is null.
C4_NormalizeAsClaimed ==
    ndone =>
        nout = IF IsNull(nraw) THEN None
               ELSE IF Val(nraw) \in DOMAIN nmap THEN Some(nmap[Val(nraw)])
               ELSE nraw

\* C4 (what the code does): the claimed result for null and for every
\* non-empty text; the empty text becomes null, mapped or not.
C4_NormalizeNonEmpty ==
    ndone =>
        nout = IF IsNull(nraw) \/ nraw = Some(tEmpty) THEN None
               ELSE IF Val(nraw) \in DOMAIN nmap THEN Some(nmap[Val(nraw)])
               ELSE nraw

\* C4 witness: an unmapped non-empty status passed through.
C4_Witness ==
    /\ ndone /\ nraw = Some(tWeird) /\ nout = nraw
    /\ tCompleted \in DOMAIN nmap

----------------------------------------------------------------------------
(* Specification Spec: run_pipeline called with all three layers, the raw
   input replaced between calls *)

FileName == <<"o", ".", "x", "l", "s", "x">>

\* every frame with the columns cs and at most n rows drawn from rs
FramesOf(cs, rs, n) == {[cols |-> cs, rows |-> b] : b \in BagsUpTo(rs, n)}
NonEmptyFramesOf(cs, rs, n) ==
    {f \in FramesOf(cs, rs, n) : f.rows # EmptyBag}

RawDates == {None, Some(<<2024, 1, 5>>), Some(<<2024, 2, 5>>)}
RawOrderIds == {Some(tA1), Some(tTEST \o <<"7">>)}
RawStatuses == {Some(tCompleted)}

\* rows of a spreadsheet with a Date column
DatedCols == {"Date", "Order ID", "Status"}
DatedRows ==
    {[c \in DatedCols |->
        CASE c = "Date" -> d [] c = "Order ID" -> o [] c = "Status" -> st] :
        d \in RawDates, o \in RawOrderIds, st \in RawStatuses}

\* rows of a spreadsheet with Year and Month columns and no Date column
UndatedCols == {"Year", "Month", "Order ID"}
UndatedRows ==
    {[c \in UndatedCols |->
        CASE c = "Year" -> Some(2024) [] c = "Month" -> m
          [] c = "Order ID" -> Some(tA1)] : m \in {Some(1), Some(2)}}

\* rows of a spreadsheet with neither
PlainCols == {"Order ID"}
PlainRows == {[c \in PlainCols |-> Some(tA1)]}

RawFrames ==
    FramesOf(DatedCols, DatedRows, MaxRawRows)
    \cup NonEmptyFramesOf(UndatedCols, UndatedRows, MaxRawRows)
    \cup NonEmptyFramesOf(PlainCols, PlainRows, MaxRawRows)

\* the content of data/raw/<source>: no file, a file that cannot be read,
\* or one spreadsheet
RawDirs ==
    {<<>>}
    \cup {[n \in {FileName} |->
              [ok |-> FALSE, text |-> FALSE, df |-> EmptyFrame]]}
    \cup {[n \in {FileName} |-> [ok |-> TRUE, text |-> FALSE, df |-> f]] :
              f \in RawFrames}

SourceLists == {<<"shopee", "alpha">>, <<"alpha", "shopee">>, <<"alpha">>, <<>>}

Listed == {srcs[i] : i \in DOMAIN srcs}

Init ==
    /\ IdleRace
    /\ IdleStore /\ IdleNorm /\ IdleParse /\ IdleSimple /\ IdleExport /\ IdleServer /\ IdleValid /\ IdleRoot
    /\ srcs \in SourceLists
    /\ raw \in [Sources -> RawDirs]
    /\ \A s \in Sources \ Listed : raw[s] = <<>>
    /\ bronze = [s \in Sources |-> <<>>]
    /\ silver = [s \in Sources |-> <<>>]
    /\ gold = <<>>
    /\ monthly = None
    /\ reasons = None
    /\ layers = AllLayers
    /\ pc = "idle"
    /\ pos = 0
    /\ cur = <<>>
    /\ results = NoResults
    /\ trace = <<>>
    /\ last = NoStep
    /\ runs = 0
    /\ snap = None
    /\ dirty = FALSE

\* between two calls the content of one source's input directory changes
ChangeInput ==
    /\ pc \in {"done", "raised"}
    /\ ~dirty
    /\ runs < MaxRuns
    /\ \E s \in Listed, d \in RawDirs :
        /\ d # raw[s]
        /\ raw' = [raw EXCEPT ![s] = d]
    /\ dirty' = TRUE
    /\ UNCHANGED <<bronze, silver, gold, monthly, reasons, srcs, layers, pc,
                   pos, cur, results, trace, last, runs, snap>>
    /\ UNCHANGED nonPipeVars

Next == Call \/ BronzeStep \/ SilverStep \/ GoldStep \/ ChangeInput

Spec == Init /\ [][Next]_vars

\* Specification SpecRuns: run_pipeline called again and again on input
\* that stays as it is
NextRuns == Call \/ BronzeStep \/ SilverStep \/ GoldStep

SpecRuns == Init /\ [][NextRuns]_vars

----------------------------------------------------------------------------
(* Specification SpecGold: run_pipeline called with layers = ["gold"] on the
   Silver output of earlier Bronze and Silver runs, with a source list that
   changes between calls *)

\* rows of alpha's spreadsheet: a status and a cancellation reason
ReasonCols == {"Date", "Order ID", "Status", "Reason cancelled"}
ReasonRows ==
    LET row(d, st, re) ==
            [c \in ReasonCols |->
                CASE c = "Date" -> Some(d) [] c = "Order ID" -> Some(tA1)
                  [] c = "Status" -> st [] c = "Reason cancelled" -> re]
    IN  {row(<<2024, 1, 5>>, p[1], p[2]) :
            p \in {<<Some(tCompleted), None>>, <<Some(tCancelled), Some(tLate)>>,
                   <<Some(tCancelled), Some(tPrice)>>, <<Some(tCancelled), None>>,
                   <<Some(tWeird), Some(tLate)>>, <<None, None>>}}
        \cup {row(<<2024, 2, 5>>, Some(tCancelled), Some(tLate))}

\* rows of shopee's spreadsheet: no reason column
NoReasonRows ==
    {[c \in DatedCols |->
        CASE c = "Date" -> Some(<<2024, 1, 5>>) [] c = "Order ID" -> Some(tA1)
          [] c = "Status" -> st] : st \in {Some(tCompleted), Some(tCancelled)}}

\* data/raw/<source> holding one spreadsheet
OneFile(f) == [n \in {FileName} |-> [ok |-> TRUE, text |-> FALSE, df |-> f]]

GoldSourceLists == {<<"alpha", "shopee">>, <<"alpha">>, <<"shopee">>}

InitGold ==
    /\ IdleRace
    /\ IdleStore /\ IdleNorm /\ IdleParse /\ IdleSimple /\ IdleExport /\ IdleServer /\ IdleValid /\ IdleRoot
    /\ srcs \in GoldSourceLists
    /\ \E fa \in FramesOf(ReasonCols, ReasonRows, MaxGoldRows),
          fs \in FramesOf(DatedCols, NoReasonRows, MaxRawRows) :
          raw = [s \in Sources |->
                    IF s = "alpha" THEN OneFile(fa) ELSE OneFile(fs)]
    /\ bronze = [s \in Sources |-> BronzeRun(raw[s], s, <<>>).store]
    /\ silver = [s \in Sources |-> SilverRun(bronze[s], s, <<>>).store]
    /\ gold = <<>>
    /\ monthly = None
    /\ reasons = None
    /\ layers = {"gold"}
    /\ pc = "idle"
    /\ pos = 0
    /\ cur = <<>>
    /\ results = NoResults
    /\ trace = <<>>
    /\ last = NoStep
    /\ runs = 0
    /\ snap = None
    /\ dirty = FALSE

\* the next call is made with another source list
ChangeSources ==
    /\ pc = "done"
    /\ ~dirty
    /\ runs < MaxRuns
    /\ srcs' \in GoldSourceLists \ {srcs}
    /\ dirty' = TRUE
    /\ UNCHANGED <<raw, bronze, silver, gold, monthly, reasons, layers, pc,
                   pos, cur, results, trace, last, runs, snap>>
    /\ UNCHANGED nonPipeVars

NextGold == Call \/ GoldStep \/ ChangeSources

SpecGold == InitGold /\ [][NextGold]_vars

----------------------------------------------------------------------------
(* Claims about run_pipeline, checked under Spec and SpecRuns *)

\* the paths of the partitions a frame's rows belong to
PathsOf(df) ==
    IF {"Year", "Month"} \subseteq df.cols
    THEN {PartitionPath(Val(r.Year), Val(r.Month)) :
            r \in {x \in DOMAIN df.rows : ~IsNull(x.Year) /\ ~IsNull(x.Month)}}
    ELSE {}

\* the rows of a frame that belong to the partition at path p
RowsAt(df, p) ==
    LET Here(r) == ~IsNull(r.Year) /\ ~IsNull(r.Month)
                   /\ PartitionPath(Val(r.Year), Val(r.Month)) = p
    IN  FilterRows(df.rows, Here)

\* C2: a second run of Bronze, Silver and Gold for the same source list on
\* unchanged input leaves every Bronze, Silver and Gold partition with the
\* rows it had after the first run.
C2_SecondRunSameRows ==
    (pc = "done" /\ snap # None) => <<bronze, silver, gold>> = Val(snap)

\* C2 witness: the second run of two sources returned, with partitions in
\* every layer.
C2_Witness ==
    /\ pc = "done" /\ snap # None /\ Len(srcs) = 2
    /\ \A s \in Listed : bronze[s] # <<>> /\ silver[s] # <<>>
    /\ \E p \in DOMAIN gold : Height(gold[p]) = 2

\* C6 (as claimed): when the Bronze or Silver run of a source raises,
\* run_pipeline does not propagate it: the run goes on with the later
\* sources and Gold, and returns a summary that records the failure.
C6_FailureContained ==
    (last.raised /\ last.stage \in {"bronze", "silver"}) =>
        /\ pc \in {"running", "done"}
        /\ pc = "done" =>
              /\ \A s \in Listed : \E i \in DOMAIN trace : trace[i][2] = s
              /\ \E i \in DOMAIN trace : trace[i][1] = "gold"
              /\ ~IsNull(results.gold_rows)

\* C6 (what the code does): a Bronze or Silver run that raises ends the
\* call: the exception leaves run_pipeline, no later stage run is made and
\* no result is stored for the source.
C6_FailurePropagates ==
    (last.raised /\ last.stage \in {"bronze", "silver"}) =>
        /\ pc = "raised"
        /\ trace[Len(trace)] = <<last.stage, last.source>>
        /\ last.source \notin DOMAIN results.sources
        /\ IsNull(results.gold_rows)

\* C6 case: the first of two sources raised in Bronze.
C6_Witness ==
    /\ last.raised /\ last.stage = "bronze"
    /\ Len(srcs) = 2 /\ last.source = srcs[1]

C9_SubtreeRegenerated ==
    (last.stage # "none" /\ ~last.raised) =>
        LET store == CASE last.stage = "bronze" -> bronze[last.source]
                       [] last.stage = "silver" -> silver[last.source]
                       [] last.stage = "gold" -> gold
        IN  DOMAIN store \subseteq PathsOf(last.df)

\* C9 (what the code does): a stage run writes the partition files of the
\* (Year, Month) values of its data and leaves every other file of the
\* subtree as it is.
C9_OnlyOwnPartitionsWritten ==
    (last.stage # "none" /\ ~last.raised) =>
        LET store == CASE last.stage = "bronze" -> bronze[last.source]
                       [] last.stage = "silver" -> silver[last.source]
                       [] last.stage = "gold" -> gold
        IN  /\ PathsOf(last.df) \subseteq DOMAIN store
            /\ \A p \in PathsOf(last.df) :
                  store[p].rows = RowsAt(last.df, p)

\* the rows of a Silver input that have a Date (when the column exists) and
\* a Year
HasDateAndYear(df, r) ==
    /\ "Date" \in df.cols => ~IsNull(r.Date)
    /\ "Year" \in df.cols => ~IsNull(r.Year)

\* the number of rows of a Silver input that lack a Date or a Year
DroppedCount(df) ==
    LET Invalid(r) == ~HasDateAndYear(df, r)
    IN  CountRows(df.rows, Invalid)

\* C10 (as claimed): a Silver run persists exactly the rows it received
\* that have a non-null Date and Year (a source with a validation hook of
\* its own may drop more), and when it dropped rows the source's result
\* carries the number dropped.
C10_DropCountReported ==
    (last.stage = "silver" /\ ~last.raised /\ Height(last.input) > 0) =>
        LET s == last.source
            res == results.sources[s]
        IN  /\ \A r \in DOMAIN last.df.rows : HasDateAndYear(last.df, r)
            /\ Adapter(s) # "shopee" =>
                  Height(last.df) = Height(last.input) - DroppedCount(last.input)
            /\ \A p \in PathsOf(last.df) :
                  silver[s][p].rows = RowsAt(last.df, p)
            /\ DroppedCount(last.input) > 0 =>
                  \E k \in DOMAIN res \ {"source", "bronze_rows",
                                             "silver_rows"} :
                      res[k] = DroppedCount(last.input)

\* C10 (what the code does): the rows without a Date or a Year are dropped
\* and the source's result holds the source's name and the number of rows
\* Bronze and Silver produced, nothing else.
C10_OnlyRowCountsReported ==
    (last.stage = "silver" /\ ~last.raised /\ Height(last.input) > 0) =>
        LET s == last.source
            res == results.sources[s]
        IN  /\ \A r \in DOMAIN last.df.rows : HasDateAndYear(last.df, r)
            /\ Adapter(s) # "shopee" =>
                  Height(last.df) = Height(last.input) - DroppedCount(last.input)
            /\ \A p \in PathsOf(last.df) :
                  silver[s][p].rows = RowsAt(last.df, p)
            /\ DOMAIN res = {"source", "bronze_rows", "silver_rows"}
            /\ res.silver_rows = Height(last.df)

\* C10 case: a Silver run dropped a row without a Date and kept another.
C10_Witness ==
    /\ last.stage = "silver" /\ ~last.raised
    /\ DroppedCount(last.input) > 0
    /\ Height(last.df) > 0

\* the number of rows of the month of row r, of r's source only or of every
\* source, that have the normalized status t (any status when t is null)
MonthCount(df, r, allSources, t) ==
    LET P(x) == /\ x.Year = r.Year /\ x.Month = r.Month
                /\ (allSources \/ x.Source = r.Source)
                /\ (IsNull(t) \/ x.Status_Normalized = t)
    IN  CountRows(df.rows, P)

\* a row of monthly_by_source for the month of r with the given Source
\* whose counts are those of r's source (or of every source)
HasMetrics(table, df, r, source, allSources) ==
    \E m \in table :
        /\ m.Source = source /\ m.Year = r.Year /\ m.Month = r.Month
        /\ m.total_orders = MonthCount(df, r, allSources, None)
        /\ m.delivered = MonthCount(df, r, allSources, Some(tDelivered))
        /\ m.cancelled = MonthCount(df, r, allSources, Some(tCancelled))
        /\ m.returned = MonthCount(df, r, allSources, Some(tReturned))
        /\ m.failed = MonthCount(df, r, allSources, Some(tFailed))

\* C5 (as claimed): after a Gold run on data, monthly_by_source has for
\* every (Year, Month) of the combined data one row per source with rows in
\* that month and a row with Source = "All" whose total_orders and status
\* counts are the sums over the sources of the month.
C5_AllRowPresent ==
    (last.stage = "gold" /\ ~last.raised /\ Height(last.df) > 0) =>
        /\ ~IsNull(monthly)
        /\ \A r \in DOMAIN last.df.rows :
              /\ HasMetrics(Val(monthly), last.df, r, r.Source, FALSE)
              /\ HasMetrics(Val(monthly), last.df, r, Some(tAll), TRUE)

\* C5 (what the code does): monthly_by_source has the rows of the
\* (Source, Year, Month) groups of the combined data and no other row.
C5_PerSourceRowsOnly ==
    (last.stage = "gold" /\ ~last.raised /\ Height(last.df) > 0) =>
        /\ ~IsNull(monthly)
        /\ \A r \in DOMAIN last.df.rows :
              HasMetrics(Val(monthly), last.df, r, r.Source, FALSE)
        /\ \A m \in Val(monthly) : \E r \in DOMAIN last.df.rows :
              <<m.Source, m.Year, m.Month>> = <<r.Source, r.Year, r.Month>>
        /\ \A m, n \in Val(monthly) :
              <<m.Source, m.Year, m.Month>> = <<n.Source, n.Year, n.Month>>
                  => m = n

\* C5 case: Gold combined rows of two sources of one month.
C5_Witness ==
    /\ last.stage = "gold" /\ ~last.raised
    /\ \E r, x \in DOMAIN last.df.rows :
          /\ r.Source # x.Source
          /\ <<r.Year, r.Month>> = <<x.Year, x.Month>>

----------------------------------------------------------------------------
(* Claims about the Gold metrics, checked under SpecGold *)

\* a Gold run has just written its tables from the frame last.df
GoldWrote == last.stage = "gold" /\ ~last.raised /\ Height(last.df) > 0

CanonicalStatuses == {Some(tDelivered), Some(tCancelled), Some(tReturned),
                      Some(tFailed)}

\* the rows of the group of metrics row m whose status is none of the four
UnknownCount(df, m) ==
    LET P(r) == /\ <<r.Source, r.Year, r.Month>> = <<m.Source, m.Year, m.Month>>
                /\ r.Status_Normalized \notin CanonicalStatuses
    IN  CountRows(df.rows, P)

Buckets(m) == m.delivered + m.cancelled + m.returned + m.failed

\* C11: in every row of monthly_by_source the four status counts sum to at
\* most total_orders, and the difference is the number of rows of the group
\* whose Status_Normalized is none of Delivered, Cancelled, Returned,
\* Failed: such a row is counted in total_orders and in no bucket.
C11_UnknownInTotalOnly ==
    /\ ~IsNull(monthly) =>
          \A m \in Val(monthly) : Buckets(m) <= m.total_orders
    /\ GoldWrote =>
          \A m \in Val(monthly) :
              m.total_orders - Buckets(m) = UnknownCount(last.df, m)

\* C11 witness: a group with a row of an unmapped status and a row of a
\* canonical one.
C11_Witness ==
    /\ GoldWrote
    /\ \E m \in Val(monthly) :
          /\ Buckets(m) > 0 /\ m.total_orders > Buckets(m)
          /\ \E r \in DOMAIN last.df.rows :
                /\ <<r.Source, r.Year, r.Month>> = <<m.Source, m.Year, m.Month>>
                /\ r.Status_Normalized = Some(tWeird)

\* rate, in tenths of a percent, is x / total * 100 rounded to one decimal:
\* it is within half a tenth of the exact value
IsRounded(rate, x, total) ==
    LET d == rate * total - 1000 * x
    IN  2 * (IF d < 0 THEN -d ELSE d) <= total

\* C12: every row of monthly_by_source has total_orders >= 1 (so no rate
\* has a zero denominator), its delivery_rate and cancel_rate are
\* delivered / total_orders * 100 and cancelled / total_orders * 100 rounded
\* to one decimal, and both lie in [0, 100].
C12_RatesRounded ==
    ~IsNull(monthly) =>
        \A m \in Val(monthly) :
            /\ m.total_orders >= 1
            /\ IsRounded(m.delivery_rate, m.delivered, m.total_orders)
            /\ IsRounded(m.cancel_rate, m.cancelled, m.total_orders)
            /\ m.delivery_rate \in 0..1000
            /\ m.cancel_rate \in 0..1000

\* C12 witness: a group of three rows, two of them cancelled and one
\* delivered, so that both rates are rounded (66.7 and 33.3).
C12_Witness ==
    /\ GoldWrote
    /\ \E m \in Val(monthly) :
          /\ m.total_orders = 3 /\ m.cancelled = 2 /\ m.delivered = 1
          /\ m.cancel_rate = 667 /\ m.delivery_rate = 333

\* the combined rows of the month and reason of table row g that are
\* Cancelled
CancelledCount(df, g) ==
    LET P(r) == /\ <<r.Year, r.Month>> = <<g.Year, g.Month>>
                /\ r["Reason cancelled"] = g.Reason
                /\ r.Status_Normalized = Some(tCancelled)
    IN  CountRows(df.rows, P)

\* C13: cancellation_reasons has one row per (Year, Month, Reason) whose
\* count is the number of combined rows of that month that are Cancelled
\* and have that non-null reason; rows of another status or with a null
\* reason are in no count; within a (Year, Month) the rows come by count
\* descending.
C13_ReasonsCounted ==
    (GoldWrote /\ "Reason cancelled" \in last.df.cols) =>
        /\ ~IsNull(reasons)
        /\ LET q == Val(reasons)
           IN  /\ \A i \in DOMAIN q :
                     /\ ~IsNull(q[i].Reason)
                     /\ q[i].count >= 1
                     /\ q[i].count = CancelledCount(last.df, q[i])
               /\ \A i, j \in DOMAIN q :
                     <<q[i].Year, q[i].Month, q[i].Reason>>
                         = <<q[j].Year, q[j].Month, q[j].Reason>> => i = j
               /\ \A r \in DOMAIN last.df.rows :
                     (r.Status_Normalized = Some(tCancelled)
                      /\ ~IsNull(r["Reason cancelled"])) =>
                         \E i \in DOMAIN q :
                             <<q[i].Year, q[i].Month, q[i].Reason>>
                                 = <<r.Year, r.Month, r["Reason cancelled"]>>
               /\ \A i, j \in DOMAIN q :
                     (i < j /\ <<q[i].Year, q[i].Month>>
                                  = <<q[j].Year, q[j].Month>>)
                         => q[i].count >= q[j].count

\* C13 witness: a month with two reasons, counted 2 and 1, next to a
\* Cancelled row without a reason.
C13_Witness ==
    /\ GoldWrote /\ ~IsNull(reasons)
    /\ "Reason cancelled" \in last.df.cols
    /\ \E i, j \in DOMAIN Val(reasons) :
          /\ i < j
          /\ Val(reasons)[i].Month = Val(reasons)[j].Month
          /\ Val(reasons)[i].count = 2 /\ Val(reasons)[j].count = 1
    /\ \E r \in DOMAIN last.df.rows :
          /\ IsNull(r["Reason cancelled"])
          /\ r.Status_Normalized = Some(tCancelled)

----------------------------------------------------------------------------
(* Specification SpecParse: _parse_date_column applied to one frame *)

t011324 == <<"0", "1", "-", "1", "3", "-", "2", "4">>
t011324s == <<"0", "1", "/", "1", "3", "/", "2", "4">>
t20240113 == <<"2", "0", "2", "4", "-", "0", "1", "-", "1", "3">>
t13012024 == <<"1", "3", "-", "0", "1", "-", "2", "0", "2", "4">>
t01132024 == <<"0", "1", "-", "1", "3", "-", "2", "0", "2", "4">>
t01022024 == <<"0", "1", "-", "0", "2", "-", "2", "0", "2", "4">>
tNoDate == <<"n", "/", "a">>

\* the cells of a string Date column, and of a typed one
DateTexts == {None, Some(t011324), Some(t011324s), Some(t20240113),
              Some(t13012024), Some(t01132024), Some(t01022024),
              Some(tNoDate)}
TypedDates == {None, Some(<<2024, 1, 13>>)}

\* the frames of n rows, row i with Order ID i and a Date cell of cells
DateFrames(cells, n) ==
    {[cols |-> {"Date", "Order ID"},
      rows |-> SetToBag({[c \in {"Date", "Order ID"} |->
                            IF c = "Date" THEN f[i]
                            ELSE Some(<<DigitChars[i + 1]>>)] : i \in 1..n})] :
        f \in [1..n -> cells]}

InitParse ==
    /\ IdleRace
    /\ IdleStore /\ IdleNorm /\ IdlePipe /\ IdleSimple /\ IdleExport /\ IdleServer /\ IdleValid /\ IdleRoot
    /\ ptext \in BOOLEAN
    /\ \E n \in 0..MaxDateRows :
          pin \in DateFrames(IF ptext THEN DateTexts ELSE TypedDates, n)
    /\ pout = EmptyFrame
    /\ pdone = FALSE

Parse ==
    /\ ~pdone
    /\ pout' = parse_date_column(pin, ptext)
    /\ pdone' = TRUE
    /\ UNCHANGED <<pin, ptext, nonParseVars>>

NextParse == Parse

SpecParse == InitParse /\ [][NextParse]_vars

\* some row of the frame parses under format number i
SomeRowParses(df, i) ==
    \E r \in DOMAIN df.rows : ~IsNull(ParseCell(DateFormats[i], r.Date))

DateOf(df, i) ==
    (CHOOSE r \in DOMAIN df.rows : r["Order ID"] = Some(<<DigitChars[i + 1]>>))
        .Date

C14_WitnessDayFirst ==
    /\ pdone /\ ptext /\ Height(pin) = 2
    /\ DateOf(pin, 1) = Some(t01022024) /\ DateOf(pin, 2) = Some(t13012024)
    /\ DateOf(pout, 1) = Some(<<2024, 2, 1>>)

----------------------------------------------------------------------------
(* Claims about successive Gold runs, checked under SpecGold *)

\* the rows of monthly_by_source.parquet and of
\* cancellation_reasons.parquet, an absent file holding none
MonthlyRows == IF IsNull(monthly) THEN {} ELSE Val(monthly)
ReasonRowsWritten ==
    IF IsNull(reasons) THEN {}
    ELSE {Val(reasons)[i] : i \in DOMAIN Val(reasons)}

\* the tables that describe the combined frame df
MonthlyFor(df) == IF Height(df) = 0 THEN {} ELSE MonthlyMetrics(df)
ReasonsFor(df) ==
    IF Height(df) > 0 /\ "Reason cancelled" \in df.cols
    THEN ReasonGroups(df) ELSE {}

\* C15: after any Gold run, monthly_by_source and cancellation_reasons both
\* describe exactly the combined dataset of that run: neither table is left
\* over from an earlier Gold run, also when the combined dataset is empty or
\* has no cancellation-reason column.
C15_MetricsRecomputed ==
    (last.stage = "gold" /\ ~last.raised) =>
        /\ MonthlyRows = MonthlyFor(last.df)
        /\ ReasonRowsWritten = ReasonsFor(last.df)

\* what the code does keep: a Gold run over a frame with rows rewrites
\* monthly_by_source from that frame
C15_MonthlyRewrittenWhenRows ==
    GoldWrote => MonthlyRows = MonthlyFor(last.df)

\* a Gold run over a frame without the reason column has returned and the
\* reasons of an earlier run are still in cancellation_reasons
C15_StaleReasons ==
    /\ GoldWrote /\ pc = "done"
    /\ "Reason cancelled" \notin last.df.cols
    /\ ReasonRowsWritten # {}

\* a Gold run over an empty frame has returned and the metrics of an
\* earlier run are still in monthly_by_source
C15_StaleMonthly ==
    /\ last.stage = "gold" /\ pc = "done"
    /\ Height(last.df) = 0
    /\ MonthlyRows # {}

----------------------------------------------------------------------------
(* run_simple_etl and load_config (src/src/etl/pipeline.py) *)

tDone == <<"D", "o", "n", "e">>
tCancelByCust == <<"C", "a", "n", "c", "e", "l", " ", "b", "y", " ",
                   "c", "u", "s", "t", ".">>
tCanceled == <<"C", "a", "n", "c", "e", "l", "e", "d">>
tReturn == <<"R", "e", "t", "u", "r", "n">>
tRefunded == <<"R", "e", "f", "u", "n", "d", "e", "d">>
tFailedDelivery == <<"F", "a", "i", "l", "e", "d", " ",
                     "d", "e", "l", "i", "v", "e", "r", "y">>
tDeliveryFailed == <<"D", "e", "l", "i", "v", "e", "r", "y", " ",
                     "F", "a", "i", "l", "e", "d">>

\* load_config, lines 232-247: the mapping returned when the file is missing
DefaultMapping ==
    [t \in {tDelivered, tCompleted, tDone, tCancelByCust, tCancelled,
            tCanceled, tReturned, tReturn, tRefunded, tFailedDelivery,
            tFailed, tDeliveryFailed} |->
        CASE t \in {tDelivered, tCompleted, tDone} -> tDelivered
          [] t \in {tCancelByCust, tCancelled, tCanceled} -> tCancelled
          [] t \in {tReturned, tReturn, tRefunded} -> tReturned
          [] OTHER -> tFailed]

\* (mutant) load_config without the except clause: no mapping without a file
load_config_no_default(exists) == IF exists THEN ConfigMapping ELSE <<>>

\* load_config(config_path).get("status_mapping", {})
load_config(exists) == IF exists THEN ConfigMapping ELSE DefaultMapping

\* an entry of file_errors: the position of the file in the listing stands
\* for its name
FileError(i, what, warning) ==
    [file |-> i, error |-> what, warning |-> warning]

\* lines 307-318: a file that was read is loaded; it gets a warning entry
\* when more than half of its dates are null
Loaded(acc, i, df) ==
    [frames |-> Append(acc.frames, df),
     errors |-> IF "Date" \in df.cols /\ 2 * NullDates(df) > Height(df)
                THEN Append(acc.errors, FileError(i, "dates", TRUE))
                ELSE acc.errors,
     loaded |-> acc.loaded + 1]

\* lines 298-305: a sheet without rows is recorded as an error and skipped;
\* the Date column of any other sheet is parsed
ReadOne(acc, i, f) ==
    IF Height(f.df) = 0
    THEN [acc EXCEPT !.errors = Append(@, FileError(i, "empty", FALSE))]
    ELSE Loaded(acc, i, IF "Date" \in f.df.cols
                        THEN parse_date_column(f.df, f.text) ELSE f.df)

\* (mutant) lines 292-332 without the try: the first file that cannot be
\* read ends the loop, the files after it are not read
RECURSIVE LoadFilesStopAtFailure(_, _, _)
LoadFilesStopAtFailure(files, i, acc) ==
    IF i > Len(files) THEN acc
    ELSE IF ~files[i].ok
    THEN [acc EXCEPT !.errors = Append(@, FileError(i, "read", FALSE))]
    ELSE LoadFilesStopAtFailure(files, i + 1, ReadOne(acc, i, files[i]))

\* lines 288-332, the loop over the files: a file that cannot be read
\* (the except clause) is recorded in file_errors and the loop goes on
RECURSIVE LoadFiles(_, _, _)
LoadFiles(files, i, acc) ==
    IF i > Len(files) THEN acc
    ELSE LoadFiles(files, i + 1,
                   IF ~files[i].ok
                   THEN [acc EXCEPT !.errors =
                            Append(@, FileError(i, "read", FALSE))]
                   ELSE ReadOne(acc, i, files[i]))

\* pl.concat(dataframes, how="diagonal")
RECURSIVE ConcatAll(_, _)
ConcatAll(frames, i) ==
    IF i > Len(frames) THEN EmptyFrame
    ELSE ConcatDiagonal(frames[i], ConcatAll(frames, i + 1))

\* lines 354-360: Year and Month from the Date column
WithYearMonth(df) ==
    LET Y(r) == DateYear(r.Date)
        M(r) == DateMonth(r.Date)
    IN  IF "Date" \in df.cols
        THEN WithColumn(WithColumn(df, "Year", Y), "Month", M) ELSE df

\* lines 351-371: the frames concatenated, Year and Month added,
\* Status_Normalized from the Status column
SimpleTransform(frames, mapping) ==
    _normalize_status(WithYearMonth(ConcatAll(frames, 1)), mapping)

\* lines 378-397: the outcome once the combined frame is written; saved is
\* what save_partitioned gave.  ColumnNotFoundError leaves save_partitioned
\* when the combined frame has no Date column, hence no Year column.
SimpleResult(out, combined, saved) ==
    LET YearNull(r) == IsNull(r.Year)
    IN  IF saved.raised
        THEN [outcome |-> [out EXCEPT !.raised = "ColumnNotFoundError"],
              store |-> saved.store]
        ELSE [outcome |-> [out EXCEPT
                            !.total_rows = Height(combined),
                            !.saved_rows = saved.ret,
                            !.null_dates = IF "Year" \in combined.cols
                                           THEN CountRows(combined.rows,
                                                          YearNull)
                                           ELSE 0],
              store |-> saved.store]

\* lines 349-378: transform and load
SimpleLoad(out, combined, store) ==
    SimpleResult(out, combined, save_partitioned(combined, store))

\* lines 334-337: ValueError carrying file_errors when no file was loaded
AfterFiles(files, ld, mapping, store) ==
    LET out == [NoOutcome EXCEPT !.input_files = Len(files),
                                 !.file_errors = ld.errors,
                                 !.files_loaded = ld.loaded]
    IN  IF ld.loaded = 0
        THEN [outcome |-> [out EXCEPT !.raised = "ValueError"],
              store |-> store]
        ELSE SimpleLoad(out, SimpleTransform(ld.frames, mapping), store)

\* the whole call: [outcome, store].  Line 286: FileNotFoundError when the
\* folder has no spreadsheet.
run_simple_etl(files, exists, store) ==
    IF files = <<>>
    THEN [outcome |-> [NoOutcome EXCEPT !.raised = "FileNotFoundError"],
          store |-> store]
    ELSE AfterFiles(files,
                    LoadFiles(files, 1, [frames |-> <<>>, errors |-> <<>>,
                                         loaded |-> 0]),
                    load_config(exists), store)

----------------------------------------------------------------------------
(* Specification SpecSimple: run_simple_etl called once on a folder of
   spreadsheets, with or without a configuration file *)

MaxFiles == 2
MaxSimpleRows == 3

SimpleCols == {"Date", "Order ID", "Status"}

\* rows whose Date is a text: one that parses and one that does not
SimpleTextRows ==
    {[c \in SimpleCols |->
        CASE c = "Date" -> Some(d) [] c = "Order ID" -> Some(tA1)
          [] c = "Status" -> Some(tDone)] : d \in {t011324, tNoDate}}

\* rows whose Date is of date type, or an empty cell of such a column
SimpleTypedRows ==
    {[c \in SimpleCols |->
        CASE c = "Date" -> d [] c = "Order ID" -> Some(tA1)
          [] c = "Status" -> Some(tCompleted)] :
        d \in {Some(<<2024, 2, 5>>), None}}

\* a row of a sheet without a Date column
SimplePlainRows == {[c \in PlainCols |-> Some(tA1)]}

\* the spreadsheets of the folder: one that cannot be read, sheets with
\* text dates (the sheet without rows among them), sheets with typed dates
\* and a sheet without a Date column
SimpleFiles ==
    {[ok |-> FALSE, text |-> FALSE, df |-> EmptyFrame]}
    \cup {[ok |-> TRUE, text |-> TRUE, df |-> f] :
            f \in FramesOf(SimpleCols, SimpleTextRows, MaxSimpleRows)}
    \cup {[ok |-> TRUE, text |-> FALSE, df |-> f] :
            f \in NonEmptyFramesOf(SimpleCols, SimpleTypedRows, 1)
                  \cup NonEmptyFramesOf(PlainCols, SimplePlainRows, 1)}

InitSimple ==
    /\ IdleRace
    /\ IdleStore /\ IdleNorm /\ IdlePipe /\ IdleParse /\ IdleExport /\ IdleServer /\ IdleValid /\ IdleRoot
    /\ cfg \in BOOLEAN
    /\ \E n \in 0..MaxFiles : sin \in [1..n -> SimpleFiles]
    /\ sdir = <<>>
    /\ sret = NoOutcome
    /\ sdone = FALSE

RunSimple ==
    /\ ~sdone
    /\ \E out \in {run_simple_etl(sin, cfg, sdir)} :
          /\ sret' = out.outcome
          /\ sdir' = out.store
    /\ sdone' = TRUE
    /\ UNCHANGED <<cfg, sin>>
    /\ UNCHANGED nonSimpleVars

NextSimple == RunSimple

SpecSimple == InitSimple /\ [][NextSimple]_vars

----------------------------------------------------------------------------
(* Claims about run_simple_etl, checked under SpecSimple *)

\* C16: a source whose input location has no matching file is not fatal:
\* its run finishes without raising and contributes zero rows (and in a
\* multi-source run the other sources and Gold are still processed).
\* Stated for run_simple_etl, the run of one folder.
C16_NoFilesNonFatal ==
    (sdone /\ sin = <<>>) =>
        /\ sret.raised = "none"
        /\ sret.total_rows = 0

\* the files of the folder that fail to load: unreadable, or without rows
FailedFiles == {i \in DOMAIN sin : ~sin[i].ok \/ Height(sin[i].df) = 0}

\* the entries of file_errors that are errors, and those that are warnings
ErrorEntries ==
    {sret.file_errors[k] : k \in {j \in DOMAIN sret.file_errors :
                                    ~sret.file_errors[j].warning}}
WarningEntries ==
    {sret.file_errors[k] : k \in {j \in DOMAIN sret.file_errors :
                                    sret.file_errors[j].warning}}

\* the number of rows of the files i..Len(sin) that load
RECURSIVE LoadedRows(_)
LoadedRows(i) ==
    IF i > Len(sin) THEN 0
    ELSE (IF i \in FailedFiles THEN 0 ELSE Height(sin[i].df))
         + LoadedRows(i + 1)

C17_WitnessAllFailed ==
    /\ sdone /\ Len(sin) = 2
    /\ ~sin[1].ok /\ sin[2].ok /\ Height(sin[2].df) = 0
    /\ sret.raised = "ValueError"
    /\ Len(sret.file_errors) = 2

\* what holds in the layered pipeline: the Bronze run of a source whose
\* raw directory has no spreadsheet does not raise and yields no row
C16_LayeredNoFilesNonFatal ==
    (last.stage = "bronze" /\ raw[last.source] = <<>>) =>
        /\ ~last.raised
        /\ Height(last.df) = 0

\* the Gold run of a call whose first source had no spreadsheet is made
C16_LayeredGoldStillRuns ==
    /\ Len(srcs) = 2 /\ raw[srcs[1]] = <<>> /\ raw[srcs[2]] # <<>>
    /\ pc = "done" /\ last.stage = "gold" /\ Height(last.df) > 0

\* what holds for a sheet more than half of whose dates are null: it is
\* loaded, with a warning entry and no error entry
C18_WarningNotError ==
    sdone =>
        \A i \in DOMAIN sin \ FailedFiles :
            LET df == parse_date_column(sin[i].df, sin[i].text)
            IN  ("Date" \in df.cols /\ 2 * NullDates(df) > Height(df)) =>
                    /\ \E e \in WarningEntries : e.file = i
                    /\ \A e \in ErrorEntries : e.file # i
                    /\ sret.files_loaded >= 1

\* what holds without a configuration file: run_simple_etl does not raise
\* on that account and normalizes with the built-in mapping
C19_SimpleUsesDefaults ==
    (sdone /\ ~cfg /\ sret.raised = "none") =>
        \A p \in DOMAIN sdir : \A r \in DOMAIN sdir[p].rows :
            r.Status_Normalized = NormalizeStatus(r.Status, DefaultMapping)

\* a run without configuration file has mapped the status Done, which only
\* the built-in mapping knows
C19_SimpleDefaultsUsed ==
    /\ sdone /\ ~cfg /\ sret.raised = "none"
    /\ \E p \in DOMAIN sdir : \E r \in DOMAIN sdir[p].rows :
          r.Status = Some(tDone) /\ r.Status_Normalized = Some(tDelivered)

----------------------------------------------------------------------------
(* Specification SpecEdge: run_pipeline called on spreadsheets whose Date
   column is text, part of it no date, with or without a configuration
   file *)

EdgeSourceLists == {<<"alpha">>, <<"alpha", "shopee">>}

TextFile(f) == [n \in {FileName} |-> [ok |-> TRUE, text |-> TRUE, df |-> f]]

InitEdge ==
    /\ IdleRace
    /\ IdleStore /\ IdleNorm /\ IdleParse /\ IdleExport /\ IdleServer /\ IdleValid /\ IdleRoot
    /\ cfg \in BOOLEAN
    /\ sin = <<>>
    /\ sdir = <<>>
    /\ sret = NoOutcome
    /\ sdone = FALSE
    /\ srcs \in EdgeSourceLists
    /\ \E fa \in NonEmptyFramesOf(SimpleCols, SimpleTextRows, MaxSimpleRows),
          fs \in FramesOf(SimpleCols, SimpleTextRows, MaxRawRows) :
          raw = [s \in Sources |->
                    IF s = "alpha" THEN TextFile(fa)
                    ELSE IF Height(fs) = 0 THEN <<>> ELSE TextFile(fs)]
    /\ bronze = [s \in Sources |-> <<>>]
    /\ silver = [s \in Sources |-> <<>>]
    /\ gold = <<>>
    /\ monthly = None
    /\ reasons = None
    /\ layers = AllLayers
    /\ pc = "idle"
    /\ pos = 0
    /\ cur = <<>>
    /\ results = NoResults
    /\ trace = <<>>
    /\ last = NoStep
    /\ runs = 0
    /\ snap = None
    /\ dirty = FALSE

SpecEdge == InitEdge /\ [][NextRuns]_vars

----------------------------------------------------------------------------
(* Claims about degraded input and a missing configuration file, checked
   under SpecEdge *)

\* the rows of a frame whose Date is null
NullDateRows(df) ==
    LET DateNull(r) == IsNull(r.Date) IN FilterRows(df.rows, DateNull)

\* the Bronze output of the source of the last stage run
BronzeOutput == LoadPartitions(bronze[last.source])

\* C18: a file in which more than half of the rows fail date parsing is a
\* warning, not an error: its rows are kept with null dates through the
\* Bronze stage, they are present in the Bronze output (and are removed at
\* Silver validation, not at Bronze).
C18_NullDatesInBronzeOutput ==
    (/\ last.stage = "bronze" /\ ~last.raised
     /\ 2 * NullDates(last.df) > Height(last.df)) =>
        \A r \in DOMAIN NullDateRows(last.df) :
            /\ r \in DOMAIN BronzeOutput.rows
            /\ BronzeOutput.rows[r] = last.df.rows[r]

\* what holds: no row with a null date is in any Bronze output, so none
\* reaches Silver validation
C18_NullDatesDroppedAtBronze ==
    \A s \in Sources : \A p \in DOMAIN bronze[s] :
        \A r \in DOMAIN bronze[s][p].rows : ~IsNull(r.Date)

\* a Bronze run whose frame holds two rows without date out of three has
\* written the third row only
C18_DegradedRun ==
    /\ last.stage = "bronze" /\ ~last.raised
    /\ Height(last.df) = 3 /\ NullDates(last.df) = 2
    /\ Height(BronzeOutput) = 1

\* C19: when the configuration file does not exist, a pipeline run
\* (run_pipeline as well as run_simple_etl) does not fail on that account:
\* it proceeds with the built-in default status mapping.  For run_pipeline:
\* a call without configuration file raises only out of a stage run or of
\* the summary, as a call with one does.
C19_MissingConfigTolerated ==
    (~cfg /\ pc = "raised") => last.stage # "none"

\* what holds: without configuration file every call of run_pipeline that
\* has a stage to run raises before the first stage run
C19_LayeredRaisesWithoutConfig ==
    (~cfg /\ runs > 0) => pc = "raised" /\ trace = <<>> /\ last = NoStep

----------------------------------------------------------------------------
(* Dashboard export (src/export_dashboard_data.py) *)

UpperChars == <<"A", "B", "C", "D", "E", "F", "G", "H", "I", "J", "K", "L",
                "M", "N", "O", "P", "Q", "R", "S", "T", "U", "V", "W", "X",
                "Y", "Z">>
LowerChars == <<"a", "b", "c", "d", "e", "f", "g", "h", "i", "j", "k", "l",
                "m", "n", "o", "p", "q", "r", "s", "t", "u", "v", "w", "x",
                "y", "z">>

\* str.lower() on one character and on a text
LowerChar(ch) ==
    IF \E i \in DOMAIN UpperChars : UpperChars[i] = ch
    THEN LowerChars[CHOOSE i \in DOMAIN UpperChars : UpperChars[i] = ch]
    ELSE ch
ToLower(t) == [i \in DOMAIN t |-> LowerChar(t[i])]

\* the directory a source is saved under: name.lower().replace(" ", "_")
\* (src/src/transform.py, line 155; app_gui.py, line 117)
DirName(name) ==
    [i \in DOMAIN name |-> IF name[i] = " " THEN "_" ELSE LowerChar(name[i])]

\* scan_partitions: the partition files by year and month
RECURSIVE scan_partitions(_)
scan_partitions(paths) ==
    IF paths = {} THEN <<>>
    ELSE LET p == CHOOSE q \in paths : \A r \in paths :
                      \/ PathYear(q) < PathYear(r)
                      \/ PathYear(q) = PathYear(r)
                         /\ PathMonth(q) <= PathMonth(r)
         IN  <<p>> \o scan_partitions(paths \ {p})

\* lines 85-91 and 136-141: the length of the frame and of its rows of
\* each status
StatusCounts(df) ==
    LET status == IF "Status_Normalized" \in df.cols
                  THEN "Status_Normalized" ELSE "Status"
        Is(t) == LET P(r) == r[status] = Some(t) IN CountRows(df.rows, P)
    IN  [total_orders |-> Height(df), delivered |-> Is(tDelivered),
         cancelled |-> Is(tCancelled), returned |-> Is(tReturned),
         failed |-> Is(tFailed)]

MonthlyRecord(c, year, month) ==
    [Year |-> year, Month |-> month, total_orders |-> c.total_orders,
     delivered |-> c.delivered, cancelled |-> c.cancelled,
     returned |-> c.returned, failed |-> c.failed]

aggregate_monthly(df, year, month) ==
    MonthlyRecord(StatusCounts(df), year, month)

\* rates in tenths of a percent, round(x / total * 100, 1)
MetricRecord(c, year, month, source) ==
    [Source |-> source, Year |-> year, Month |-> month,
     total_orders |-> c.total_orders, delivered |-> c.delivered,
     cancelled |-> c.cancelled, returned |-> c.returned,
     failed |-> c.failed,
     delivery_rate |-> Rate(c.delivered, c.total_orders),
     cancel_rate |-> Rate(c.cancelled, c.total_orders)]

\* aggregate_source_metrics: as a sequence, empty for None
aggregate_source_metrics(df, year, month, source) ==
    IF Height(df) = 0 THEN <<>>
    ELSE <<MetricRecord(StatusCounts(df), year, month, source)>>

\* every concatenation of a sequence of A with a sequence of B
Cat(A, B) == {a \o b : a \in A, b \in B}

\* line 218: the rows whose Source is the directory name, case apart
SourceRows(df, source) ==
    LET P(r) == ~IsNull(r.Source) /\ ToLower(Val(r.Source)) = ToLower(source)
    IN  Filter(df, P)

\* lines 219-224: the record of one directory; unique() gives the
\* spellings of the source in no fixed order, any of them is the name
OneSourceMetrics(sdf, year, month) ==
    IF Height(sdf) = 0 THEN {<<>>}
    ELSE {aggregate_source_metrics(sdf, year, month, Val(r.Source)) :
            r \in DOMAIN sdf.rows}

\* lines 217-224: the loop over the directories
RECURSIVE SourceMetrics(_, _, _, _, _)
SourceMetrics(df, year, month, sources, j) ==
    IF j > Len(sources) THEN {<<>>}
    ELSE Cat(OneSourceMetrics(SourceRows(df, sources[j]), year, month),
             SourceMetrics(df, year, month, sources, j + 1))

\* lines 212-224: the metrics records of one partition, All first
PartitionMetrics(df, year, month, sources) ==
    Cat({aggregate_source_metrics(df, year, month, tAll)},
        SourceMetrics(df, year, month, sources, 1))

\* aggregate_reasons: the reasons of the Cancelled rows by count
\* descending, reasons of equal count in any order
ExportReason(g, year, month) ==
    [Year |-> year, Month |-> month, Reason |-> Val(g.Reason),
     count |-> g.count]
aggregate_reasons(df, year, month) ==
    {[k \in DOMAIN q |-> ExportReason(q[k], year, month)] :
        q \in SortedReasons(ReasonGroups(df))}

\* lines 198-226: the loop over the partitions; the lists it can build
RECURSIVE MonthlyData(_, _, _)
MonthlyData(store, parts, i) ==
    IF i > Len(parts) THEN <<>>
    ELSE <<aggregate_monthly(store[parts[i]], PathYear(parts[i]),
                             PathMonth(parts[i]))>>
         \o MonthlyData(store, parts, i + 1)

RECURSIVE ReasonsData(_, _, _)
ReasonsData(store, parts, i) ==
    IF i > Len(parts) THEN {<<>>}
    ELSE Cat(aggregate_reasons(store[parts[i]], PathYear(parts[i]),
                               PathMonth(parts[i])),
             ReasonsData(store, parts, i + 1))

RECURSIVE MetricsData(_, _, _, _)
MetricsData(store, parts, sources, i) ==
    IF i > Len(parts) THEN {<<>>}
    ELSE Cat(PartitionMetrics(store[parts[i]], PathYear(parts[i]),
                              PathMonth(parts[i]), sources),
             MetricsData(store, parts, sources, i + 1))

\* lines 229 and 242-247: the document; sources is the set of the names
\* of the metrics records other than All
Document(monthly_data, reasons_data, metrics_data) ==
    [monthly |-> monthly_data, reasons |-> reasons_data,
     metrics |-> metrics_data,
     sources |-> {metrics_data[k].Source : k \in DOMAIN metrics_data}
                 \ {tAll}]

NoDocument == Document(<<>>, <<>>, <<>>)

\* the documents the export can write for the partitions in order
Documents(store, parts, sources) ==
    {Document(MonthlyData(store, parts, 1), r, m) :
        r \in ReasonsData(store, parts, 1),
        m \in MetricsData(store, parts, sources, 1)}

\* run_export_pipeline: the outcomes [raised, written, data].  Without a
\* partition it returns and writes nothing (lines 184-186);
\* aggregate_reasons filters on the column Reason cancelled without
\* testing for it, so a partition lacking it raises ColumnNotFoundError
\* (line 109) and nothing is written.
run_export_pipeline(store, sources) ==
    IF DOMAIN store = {}
    THEN {[raised |-> FALSE, written |-> FALSE, data |-> NoDocument]}
    ELSE IF \E p \in DOMAIN store : "Reason cancelled" \notin store[p].cols
    THEN {[raised |-> TRUE, written |-> FALSE, data |-> NoDocument]}
    ELSE {[raised |-> FALSE, written |-> TRUE, data |-> d] :
            d \in Documents(store, scan_partitions(DOMAIN store), sources)}

----------------------------------------------------------------------------
(* Specification SpecExport: run_export_pipeline called once on a processed
   directory holding the combined partitions of two sources *)

MaxExportRows == 3

tShopee == <<"S", "h", "o", "p", "e", "e">>
tMyShop == <<"M", "y", " ", "S", "h", "o", "p">>

ExportCols == {"Source", "Year", "Month", "Status_Normalized"}

\* combined rows of sources that have a reason column
ExportRows ==
    {[c \in ExportCols \cup {"Reason cancelled"} |->
        CASE c = "Source" -> Some(n) [] c = "Year" -> Some(2024)
          [] c = "Month" -> Some(m) [] c = "Status_Normalized" -> Some(p[1])
          [] c = "Reason cancelled" -> p[2]] :
        n \in {tShopee, tMyShop}, m \in {1, 2},
        p \in {<<tDelivered, None>>, <<tCancelled, None>>,
               <<tCancelled, Some(tLate)>>}}

\* combined rows of sources without a reason column
ExportPlainRows ==
    {[c \in ExportCols |->
        CASE c = "Source" -> Some(n) [] c = "Year" -> Some(2024)
          [] c = "Month" -> Some(m) [] c = "Status_Normalized" -> Some(t)] :
        n \in {tShopee, tMyShop}, m \in {1, 2},
        t \in {tDelivered, tCancelled}}

\* the combined frames; all_sources is the frame written by partition and
\* every source has its directory
InitExport ==
    /\ IdleRace
    /\ IdleStore /\ IdleNorm /\ IdlePipe /\ IdleParse /\ IdleSimple /\ IdleServer /\ IdleValid /\ IdleRoot
    /\ xdirs = <<DirName(tMyShop), DirName(tShopee)>>
    /\ \E f \in FramesOf(ExportCols \cup {"Reason cancelled"}, ExportRows,
                         MaxExportRows)
                \cup NonEmptyFramesOf(ExportCols, ExportPlainRows,
                                      MaxExportRows) :
          xall = save_partitioned(f, <<>>).store
    /\ xout = None
    /\ xraised = FALSE
    /\ xdone = FALSE

RunExport ==
    /\ ~xdone
    /\ \E o \in run_export_pipeline(xall, xdirs) :
          /\ xraised' = o.raised
          /\ xout' = IF o.written THEN Some(o.data) ELSE xout
    /\ xdone' = TRUE
    /\ UNCHANGED <<xdirs, xall>>
    /\ UNCHANGED nonExportVars

NextExport == RunExport

SpecExport == InitExport /\ [][NextExport]_vars

----------------------------------------------------------------------------
(* Claims about the dashboard export, checked under SpecExport *)

\* the rows of a partition that carry the source name v
RowsOfSource(df, v) ==
    LET P(r) == r.Source = Some(v) IN CountRows(df.rows, P)

\* the source names occurring in a frame and in the whole store
SourcesIn(df) == {Val(r.Source) : r \in DOMAIN df.rows}
SourcesInData == UNION {SourcesIn(xall[p]) : p \in DOMAIN xall}

\* the positions of the records of a list for one partition
RecordsOf(list, p) ==
    {k \in DOMAIN list : list[k].Year = PathYear(p)
                         /\ list[k].Month = PathMonth(p)}

\* the monthly record and the All record of partition p are there once
\* and count the rows of the partition
MonthlyAndAllRight(d, p) ==
    /\ \E k \in RecordsOf(d.monthly, p) :
          /\ RecordsOf(d.monthly, p) = {k}
          /\ d.monthly[k] = aggregate_monthly(xall[p], PathYear(p),
                                              PathMonth(p))
          /\ d.monthly[k].total_orders = Height(xall[p])
    /\ \E k \in RecordsOf(d.metrics, p) :
          /\ {j \in RecordsOf(d.metrics, p) : d.metrics[j].Source = tAll}
             = {k}
          /\ d.metrics[k].total_orders = Height(xall[p])
          /\ d.metrics[k].delivered = d.monthly[CHOOSE j \in
                 RecordsOf(d.monthly, p) : TRUE].delivered
          /\ d.metrics[k].cancelled = d.monthly[CHOOSE j \in
                 RecordsOf(d.monthly, p) : TRUE].cancelled

\* the source v of partition p has its one metrics record
SourceRecordRight(d, p, v) ==
    \E k \in RecordsOf(d.metrics, p) :
       /\ {j \in RecordsOf(d.metrics, p) : d.metrics[j].Source = v} = {k}
       /\ d.metrics[k].total_orders = RowsOfSource(xall[p], v)

\* the sum of total_orders over the per-source records of partition p
RECURSIVE SumSourceTotals(_, _)
SumSourceTotals(list, ks) ==
    IF ks = {} THEN 0
    ELSE LET k == CHOOSE j \in ks : TRUE
         IN  (IF list[k].Source = tAll THEN 0 ELSE list[k].total_orders)
             + SumSourceTotals(list, ks \ {k})

\* C20: once the export has run on combined partitions, the document is
\* written and holds, for every partition, exactly one monthly record and
\* one All metrics record with the counts of the partition and one
\* metrics record for each source with a row in it; the per-source
\* total_orders of a month sum to the All total_orders and sources lists
\* exactly the sources occurring in the data.
C20_ExportPerPartition ==
    (xdone /\ DOMAIN xall # {}) =>
        /\ ~xraised
        /\ ~IsNull(xout)
        /\ \A p \in DOMAIN xall :
              /\ MonthlyAndAllRight(Val(xout), p)
              /\ \A v \in SourcesIn(xall[p]) :
                    SourceRecordRight(Val(xout), p, v)
              /\ SumSourceTotals(Val(xout).metrics,
                                 RecordsOf(Val(xout).metrics, p))
                 = Height(xall[p])
        /\ Val(xout).sources = SourcesInData

\* what the export does keep: it raises exactly when a partition has no
\* column Reason cancelled, and a written document has the monthly and
\* All records of every partition and the record of every source whose
\* lower-cased name is the name of its directory
HasDir(v) == \E j \in DOMAIN xdirs : xdirs[j] = ToLower(v)
C20_ExportedPart ==
    (xdone /\ DOMAIN xall # {}) =>
        /\ xraised = (\E p \in DOMAIN xall :
                          "Reason cancelled" \notin xall[p].cols)
        /\ IsNull(xout) = xraised
        /\ ~xraised =>
              /\ \A p \in DOMAIN xall :
                    /\ MonthlyAndAllRight(Val(xout), p)
                    /\ \A v \in SourcesIn(xall[p]) :
                          HasDir(v) <=> SourceRecordRight(Val(xout), p, v)
              /\ Val(xout).sources = {v \in SourcesInData : HasDir(v)}

\* a written document that leaves out a source of the data
C20_SourceLeftOut ==
    /\ xdone /\ ~xraised /\ ~IsNull(xout)
    /\ tMyShop \in SourcesInData
    /\ tShopee \in Val(xout).sources
    /\ tMyShop \notin Val(xout).sources

\* an export that raised on combined partitions and wrote nothing
C20_ExportRaised ==
    xdone /\ xraised /\ DOMAIN xall # {} /\ IsNull(xout)

----------------------------------------------------------------------------
(* The dashboard file server (src/dashboard_server.py) *)

MaxServerCalls == 5

ServerDirs == {<<"d", "1">>, <<"d", "2">>, <<"d", "3">>}

\* DashboardServer.__init__: server is None
DashboardServer(directory) == [directory |-> directory, running |-> FALSE]

\* DashboardServer.start: a TCPServer bound to one of the hundred ports
\* from self.port on; when none can be bound RuntimeError is raised and
\* server stays None.  ok is whether a port could be bound.
start(list, i, ok) ==
    IF ok THEN [list EXCEPT ![i].running = TRUE] ELSE list

\* DashboardServer.stop
stop(list, i) ==
    IF list[i].running THEN [list EXCEPT ![i].running = FALSE] ELSE list

\* lines 91-95: the global after the test of the directory
KeptServer(list, g, directory) ==
    IF g # 0 /\ list[g].directory # directory THEN 0 ELSE g

StoppedOld(list, g, directory) ==
    IF g # 0 /\ list[g].directory # directory THEN stop(list, g) ELSE list

\* (mutant) a new server for every call, the old one left running
get_dashboard_server_always_new(list, g, directory, ok) ==
    [servers |-> start(Append(list, DashboardServer(directory)),
                       Len(list) + 1, ok),
     global |-> Len(list) + 1,
     returned |-> IF ok THEN Len(list) + 1 ELSE 0,
     started |-> IF ok THEN 1 ELSE 0]

\* get_dashboard_server: the instances, the global, the instance returned
\* (0 when start raised) and the number of servers started.  The global is
\* assigned before start is called (line 98), so it keeps the new instance
\* when start raises.
get_dashboard_server(list, g, directory, ok) ==
    IF KeptServer(list, g, directory) = 0
    THEN [servers |-> start(Append(StoppedOld(list, g, directory),
                                   DashboardServer(directory)),
                            Len(list) + 1, ok),
          global |-> Len(list) + 1,
          returned |-> IF ok THEN Len(list) + 1 ELSE 0,
          started |-> IF ok THEN 1 ELSE 0]
    ELSE [servers |-> list, global |-> g, returned |-> g, started |-> 0]

----------------------------------------------------------------------------
(* Specification SpecServer: get_dashboard_server called with either of
   two directories, and stop called on the instances it returned *)

InitServer ==
    /\ IdleStore /\ IdleNorm /\ IdlePipe /\ IdleParse /\ IdleSimple
    /\ IdleExport /\ IdleValid /\ IdleRoot /\ IdleRace
    /\ servers = <<>>
    /\ gsrv = 0
    /\ sarg = <<>>
    /\ sold = 0
    /\ sgot = 0
    /\ srun = FALSE
    /\ snew = 0
    /\ scalls = 0

GetDashboardServer ==
    /\ scalls < MaxServerCalls
    /\ \E d \in ServerDirs, ok \in BOOLEAN :
          \E out \in {get_dashboard_server(servers, gsrv, d, ok)} :
             /\ servers' = out.servers
             /\ gsrv' = out.global
             /\ sarg' = d
             /\ sgot' = out.returned
             /\ srun' = (out.returned # 0
                         /\ out.servers[out.returned].running)
             /\ snew' = out.started
    /\ sold' = gsrv
    /\ scalls' = scalls + 1
    /\ UNCHANGED nonServerVars

\* stop() called by the holder of a running instance
StopServer ==
    /\ \E i \in DOMAIN servers :
          /\ servers[i].running
          /\ servers' = stop(servers, i)
    /\ UNCHANGED <<gsrv, sarg, sold, sgot, srun, snew, scalls>>
    /\ UNCHANGED nonServerVars

NextServer == GetDashboardServer \/ StopServer

SpecServer == InitServer /\ [][NextServer]_vars

----------------------------------------------------------------------------
(* Claims about the dashboard server, checked under SpecServer *)

RunningServers == {i \in DOMAIN servers : servers[i].running}

\* C21: a call for the directory of the existing global server returns
\* that instance and starts no server; a call for another directory
\* stops the existing one and what it returns is a new instance for the
\* directory, started by the call; at most one instance is running and
\* it is the global one, serving the directory of the latest call.
C21_SingleServer ==
    /\ Cardinality(RunningServers) <= 1
    /\ \A i \in RunningServers : i = gsrv /\ servers[i].directory = sarg
    /\ (sold # 0 /\ servers[sold].directory = sarg) =>
          sgot = sold /\ snew = 0 /\ gsrv = sold
    /\ (sold # 0 /\ servers[sold].directory # sarg) =>
          /\ ~servers[sold].running
          /\ sgot # 0 =>
                /\ sgot = Len(servers) /\ sgot # sold
                /\ servers[sgot].directory = sarg
                /\ snew = 1 /\ srun

\* a call that replaced a server by one for another directory, after a
\* call that reused the server
C21_Witness ==
    /\ Len(servers) = 2 /\ scalls = 3
    /\ sold = 1 /\ sgot = 2 /\ gsrv = 2
    /\ servers[1].directory # servers[2].directory
    /\ ~servers[1].running /\ servers[2].running

\* C30: the instance a call returns is running when the call returns and
\* is an instance for the directory asked for.
C30_ReturnedIsRunning ==
    sgot # 0 => srun /\ servers[sgot].directory = sarg

\* what holds: a returned instance is for the directory asked for, and a
\* call that started its server returns it running
C30_ReturnedForDirectory ==
    sgot # 0 => /\ servers[sgot].directory = sarg
                /\ snew = 1 => srun

\* a call that returned an instance whose server is None
C30_ReturnedStopped ==
    sgot # 0 /\ ~srun /\ snew = 0 /\ sgot = sold

----------------------------------------------------------------------------
(* Claims about Bronze followed by Silver in one run, checked under Spec *)

\* the partition files the Bronze run of this call wrote for source s: the
\* input directory does not change while the call runs
BronzeWrittenNow(s) == BronzeRun(raw[s], s, <<>>).store

\* a Silver run that follows the Bronze run of its source in this call
SilverAfterBronze ==
    /\ last.stage = "silver"
    /\ Len(trace) >= 2
    /\ trace[Len(trace) - 1] = <<"bronze", last.source>>

\* C22: the rows a Silver run reads are exactly the rows the Bronze run
\* of the same call persisted for the source; partitions of an earlier
\* run are not among them, also when this Bronze run wrote nothing.
C22_SilverReadsThisRun ==
    SilverAfterBronze =>
        last.input = SilverExtract(BronzeWrittenNow(last.source))

\* what the code does: Silver reads every partition file under the
\* source's Bronze directory, whichever run wrote it
C22_SilverReadsSubtree ==
    SilverAfterBronze =>
        /\ last.input = SilverExtract(bronze[last.source])
        /\ \A p \in DOMAIN BronzeWrittenNow(last.source) :
              bronze[last.source][p] = BronzeWrittenNow(last.source)[p]

\* a run whose Bronze found no input and wrote nothing, and whose Silver
\* read and persisted the rows an earlier run left under Bronze
C22_EarlierRowsRead ==
    /\ SilverAfterBronze
    /\ ~last.raised
    /\ raw[last.source] = <<>>
    /\ BronzeWrittenNow(last.source) = <<>>
    /\ Height(last.input) > 0
    /\ Height(last.df) > 0

----------------------------------------------------------------------------
(* Specification SpecWebsite: run_pipeline called for one storefront source
   whose spreadsheet carries either the native or the canonical column
   names *)

MaxWebRows == 2

WebSource == "website_columbia"

\* rows of a storefront export under its native column names
NativeCols == {"Order Date", "Order No", "Order Status"}
NativeRows ==
    {[c \in NativeCols |->
        CASE c = "Order Date" -> d [] c = "Order No" -> o
          [] c = "Order Status" -> st] :
        d \in RawDates, o \in RawOrderIds, st \in RawStatuses}

InitWebsite ==
    /\ IdleStore /\ IdleNorm /\ IdleParse /\ IdleSimple /\ IdleExport
    /\ IdleServer /\ IdleValid /\ IdleRoot /\ IdleRace
    /\ srcs = <<WebSource>>
    /\ \E f \in NonEmptyFramesOf(NativeCols, NativeRows, MaxWebRows)
                \cup NonEmptyFramesOf(DatedCols, DatedRows, MaxWebRows) :
          raw = [s \in {WebSource} |-> OneFile(f)]
    /\ bronze = [s \in {WebSource} |-> <<>>]
    /\ silver = [s \in {WebSource} |-> <<>>]
    /\ gold = <<>>
    /\ monthly = None
    /\ reasons = None
    /\ layers = AllLayers
    /\ pc = "idle"
    /\ pos = 0
    /\ cur = <<>>
    /\ results = NoResults
    /\ trace = <<>>
    /\ last = NoStep
    /\ runs = 0
    /\ snap = None
    /\ dirty = FALSE

SpecWebsite == InitWebsite /\ [][NextRuns]_vars

----------------------------------------------------------------------------
(* Claims about the storefront Bronze adapter, checked under SpecWebsite *)

\* the spreadsheet of the storefront source and its date column
WebSheet == raw[WebSource][FileName].df
WebDateCol == IF "Order Date" \in WebSheet.cols THEN "Order Date" ELSE "Date"
WebIdCol == IF "Order No" \in WebSheet.cols THEN "Order No" ELSE "Order ID"
WebStatusCol ==
    IF "Order Status" \in WebSheet.cols THEN "Order Status" ELSE "Status"

\* the canonical row a row of the sheet is persisted as
WebCanonical(r, row) ==
    /\ row.Date = r[WebDateCol]
    /\ row["Order ID"] = r[WebIdCol]
    /\ row.Status = r[WebStatusCol]
    /\ row.Year = DateYear(r[WebDateCol])
    /\ row.Month = DateMonth(r[WebDateCol])
    /\ row.Source = Some(SourceText(WebSource))

\* every dated row of the sheet is in the Bronze partition of its date,
\* under the canonical names, as often as in the sheet
WebRowsPersisted ==
    \A r \in DOMAIN WebSheet.rows :
        ~IsNull(r[WebDateCol]) =>
            LET p == PartitionPath(Val(DateYear(r[WebDateCol])),
                                   Val(DateMonth(r[WebDateCol])))
            IN  /\ p \in DOMAIN bronze[WebSource]
                /\ {"Date", "Order ID", "Status", "Year", "Month", "Source"}
                   \subseteq bronze[WebSource][p].cols
                /\ \E row \in DOMAIN bronze[WebSource][p].rows :
                      /\ WebCanonical(r, row)
                      /\ bronze[WebSource][p].rows[row] = WebSheet.rows[r]

\* C23: after the storefront Bronze run on a sheet with the native column
\* names, the run has not raised and every row with a date is persisted
\* in the partition of its date under the canonical names, with Year and
\* Month derived from the renamed Date column.
C23_NativeNamesPersisted ==
    (last.stage = "bronze" /\ "Order Date" \in WebSheet.cols) =>
        ~last.raised /\ WebRowsPersisted

\* what the code does with the native names: Year and Month are derived
\* before the rename, when there is no Date column yet, so the frame
\* reaches save_partitioned without them, the run raises and nothing is
\* persisted
C23_NativeNamesRaise ==
    (last.stage = "bronze" /\ "Order Date" \in WebSheet.cols) =>
        /\ last.raised /\ pc = "raised"
        /\ "Date" \in last.df.cols
        /\ "Year" \notin last.df.cols
        /\ bronze[WebSource] = <<>>

\* with the canonical names in the sheet the rows are persisted as claimed
C23_CanonicalNamesPersisted ==
    (last.stage = "bronze" /\ "Date" \in WebSheet.cols) =>
        ~last.raised /\ WebRowsPersisted

\* a Bronze run on native names with a dated row
C23_NativeRunRaised ==
    /\ last.stage = "bronze" /\ last.raised
    /\ "Order Date" \in WebSheet.cols
    /\ \E r \in DOMAIN WebSheet.rows : ~IsNull(r["Order Date"])

\* a Bronze run on canonical names that persisted a dated row
C23_CanonicalRunPersisted ==
    /\ last.stage = "bronze" /\ ~last.raised
    /\ "Date" \in WebSheet.cols
    /\ bronze[WebSource] # <<>>

----------------------------------------------------------------------------
(* Specification SpecValid: the Silver transform of the adapter of a source
   applied to one frame read from Bronze *)

MaxValidRows == 2

ValidSources == {"alpha", "shopee", "website_columbia"}

tSpaceTEST7 == <<" ">> \o tTEST \o <<"7">>

\* rows read from Bronze, with and without an Order ID column
SilverInCols == {"Date", "Year", "Month", "Order ID", "Status"}
SilverInRows ==
    {[c \in SilverInCols |->
        CASE c = "Date" -> d [] c = "Year" -> y
          [] c = "Month" -> (IF IsNull(y) THEN None ELSE Some(1))
          [] c = "Order ID" -> o [] c = "Status" -> Some(tCompleted)] :
        d \in {None, Some(<<2024, 1, 5>>)}, y \in YearCells,
        o \in {None, Some(tA1), Some(tTEST \o <<"7">>), Some(tSpaceTEST7)}}
SilverInRowsNoId ==
    {[c \in SilverInCols \ {"Order ID"} |-> r[c]] : r \in SilverInRows}

InitValid ==
    /\ IdleStore /\ IdleNorm /\ IdlePipe /\ IdleParse /\ IdleSimple
    /\ IdleExport /\ IdleServer /\ IdleRoot /\ IdleRace
    /\ vin \in NonEmptyFramesOf(SilverInCols, SilverInRows, MaxValidRows)
               \cup NonEmptyFramesOf(SilverInCols \ {"Order ID"}, SilverInRowsNoId,
                                     MaxValidRows)
    /\ vsrc \in ValidSources
    /\ vout = EmptyFrame
    /\ vdone = FALSE

\* get_silver_etl(source, config).transform(df)
TransformRows ==
    /\ ~vdone
    /\ vout' = SilverTransform(vin, vsrc)
    /\ vdone' = TRUE
    /\ UNCHANGED <<vin, vsrc>>
    /\ UNCHANGED nonValidVars

NextValid == TransformRows

SpecValid == InitValid /\ [][NextValid]_vars

----------------------------------------------------------------------------
(* Claims about the validation hooks, checked under SpecValid *)

\* the rows the base class keeps of the frame: the transform of a source
\* without a registered adapter
BaseKept == SilverTransform(vin, "alpha")

\* C24: the rows an adapter's transform keeps are among the rows the base
\* validation keeps, as often at most; none of them has a null Date or a
\* null Year.
C24_SubclassNarrows ==
    vdone =>
        /\ vout.rows \sqsubseteq BaseKept.rows
        /\ \A r \in DOMAIN vout.rows : ~IsNull(r.Date) /\ ~IsNull(r.Year)

\* the Shopee adapter has run on a frame with a row the base rule drops
\* and a row it keeps
C24_Witness ==
    /\ vdone /\ vsrc = "shopee"
    /\ \E r \in DOMAIN vin.rows : IsNull(r.Date) \/ IsNull(r.Year)
    /\ Height(vin) > Height(vout)
    /\ Height(vout) > 0

\* the cleaned Order ID of a row: _clean_strings runs before _validate
TrimmedId(r) == StripCell(r["Order ID"])
IsTestId(c) == ~IsNull(c) /\ StartsWith(Val(c), tTEST)

\* C25: of the rows that pass the base validation the Shopee hook removes
\* exactly those whose trimmed Order ID starts with TEST; rows with
\* another Order ID or with none are kept.
C25_OnlyTestOrdersRemoved ==
    (vdone /\ vsrc = "shopee" /\ "Order ID" \in vin.cols) =>
        \A r \in DOMAIN BaseKept.rows :
            IF IsTestId(r["Order ID"])
            THEN r \notin DOMAIN vout.rows
            ELSE /\ r \in DOMAIN vout.rows
                 /\ vout.rows[r] = BaseKept.rows[r]

\* what the code does: a row without an Order ID value is removed too
C25_TestAndNullRemoved ==
    (vdone /\ vsrc = "shopee" /\ "Order ID" \in vin.cols) =>
        \A r \in DOMAIN BaseKept.rows :
            IF IsTestId(r["Order ID"]) \/ IsNull(r["Order ID"])
            THEN r \notin DOMAIN vout.rows
            ELSE /\ r \in DOMAIN vout.rows
                 /\ vout.rows[r] = BaseKept.rows[r]

\* a Shopee run that removed a valid row without an Order ID value
C25_NullIdRemoved ==
    /\ vdone /\ vsrc = "shopee" /\ "Order ID" \in vin.cols
    /\ \E r \in DOMAIN BaseKept.rows :
          IsNull(r["Order ID"]) /\ r \notin DOMAIN vout.rows

\* a Shopee run that removed a row whose Order ID starts with TEST once
\* trimmed, and kept another
C25_TrimmedTestRemoved ==
    /\ vdone /\ vsrc = "shopee" /\ "Order ID" \in vin.cols
    /\ \E r \in DOMAIN vin.rows :
          r["Order ID"] = Some(tSpaceTEST7) /\ ~IsNull(r.Date)
          /\ ~IsNull(r.Year)
    /\ \A r \in DOMAIN vout.rows : ~IsTestId(r["Order ID"])
    /\ Height(vout) > 0

----------------------------------------------------------------------------
(* Claims about what a stage run changes, checked under SpecRuns *)

\* C26: while a call runs, the raw input never changes; the Bronze subtree
\* of a source changes only in the Bronze run of that source and its
\* Silver subtree only in its Silver run; the Gold subtree (the combined
\* partitions and the two metrics tables) changes only in the Gold run.
C26_StageFrame ==
    [][pc = "running" =>
          /\ raw' = raw
          /\ \A s \in DOMAIN bronze :
                bronze'[s] # bronze[s] => Steps[pos] = <<"bronze", s>>
          /\ \A s \in DOMAIN silver :
                silver'[s] # silver[s] => Steps[pos] = <<"silver", s>>
          /\ (gold' # gold \/ monthly' # monthly \/ reasons' # reasons) =>
                Steps[pos][1] = "gold"]_vars

\* the second source of the list has had its Bronze and Silver runs and
\* both sources have partitions under Bronze and Silver
C26_Witness ==
    /\ Len(srcs) = 2
    /\ last.stage = "silver" /\ last.source = srcs[2] /\ ~last.raised
    /\ \A s \in Listed : bronze[s] # <<>> /\ silver[s] # <<>>
    /\ bronze[srcs[1]] # bronze[srcs[2]]

----------------------------------------------------------------------------
(* Specification SpecRoot: run_pipeline called with a configuration whose
   output root is data or another directory; in the second case data/silver
   is empty or holds what an earlier run under the root data left there *)

OutputRoots == {"data", "out"}

\* the Silver partitions of alpha after a run on one order of 2024-02
EarlierSheet ==
    [cols |-> DatedCols,
     rows |-> SetToBag({[c \in DatedCols |->
                 CASE c = "Date" -> Some(<<2024, 2, 5>>)
                   [] c = "Order ID" -> Some(tA1)
                   [] c = "Status" -> Some(tCompleted)]})]
EarlierSilver ==
    [s \in Sources |->
        IF s = "alpha"
        THEN SilverRun(BronzeRun(OneFile(EarlierSheet), s, <<>>).store,
                       s, <<>>).store
        ELSE <<>>]

InitRoot ==
    /\ IdleStore /\ IdleNorm /\ IdleParse /\ IdleSimple /\ IdleExport
    /\ IdleServer /\ IdleValid /\ IdleRace
    /\ outroot \in OutputRoots
    /\ dsilver \in IF outroot = "data" THEN {<<>>}
                   ELSE {[s \in Sources |-> <<>>], EarlierSilver}
    /\ srcs \in SourceLists
    /\ raw \in [Sources -> RawDirs]
    /\ \A s \in Sources \ Listed : raw[s] = <<>>
    /\ bronze = [s \in Sources |-> <<>>]
    /\ silver = [s \in Sources |-> <<>>]
    /\ gold = <<>>
    /\ monthly = None
    /\ reasons = None
    /\ layers = AllLayers
    /\ pc = "idle"
    /\ pos = 0
    /\ cur = <<>>
    /\ results = NoResults
    /\ trace = <<>>
    /\ last = NoStep
    /\ runs = 0
    /\ snap = None
    /\ dirty = FALSE

SpecRoot == InitRoot /\ [][NextRuns]_vars

----------------------------------------------------------------------------
(* Claims about what Gold reads, checked under SpecRoot *)

\* the number of rows in the Silver partitions of the listed sources
RECURSIVE SilverRowSum(_)
SilverRowSum(i) ==
    IF i > Len(srcs) THEN 0
    ELSE Height(SilverExtract(silver[srcs[i]])) + SilverRowSum(i + 1)

\* C27: whatever the output root, the Gold run reads for every listed
\* source the partition files of the source's configured Silver
\* directory, skips a source without any, and combines as many rows as
\* those files hold together.
C27_GoldReadsConfiguredSilver ==
    (last.stage = "gold" /\ ~last.raised) =>
        /\ last.input = GoldExtract(silver, srcs, 1)
        /\ Height(last.df) = SilverRowSum(1)
        /\ results.gold_rows = Some(SilverRowSum(1))

\* what the code does: Gold reads data/silver/<source>, which is the
\* configured Silver directory only when the output root is data
C27_GoldReadsDataSilver ==
    (last.stage = "gold" /\ ~last.raised) =>
        /\ last.input = GoldExtract(SilverBase, srcs, 1)
        /\ outroot = "data" =>
              /\ last.input = GoldExtract(silver, srcs, 1)
              /\ Height(last.df) = SilverRowSum(1)

\* a Gold run under another output root that combined nothing although
\* Silver had written partitions
C27_SilverNotRead ==
    /\ last.stage = "gold" /\ ~last.raised
    /\ outroot = "out"
    /\ SilverRowSum(1) > 0
    /\ Height(last.df) = 0

\* a Gold run under another output root that combined the rows an
\* earlier run had left under data/silver
C27_OtherRunRead ==
    /\ last.stage = "gold" /\ ~last.raised
    /\ outroot = "out"
    /\ silver["alpha"] = <<>>
    /\ Height(last.df) > 0
    /\ gold # <<>>

----------------------------------------------------------------------------
(* Specification SpecTally: run_simple_etl called once on a folder that may
   also hold sheets with their own Year and Month columns and no Date *)

\* rows of a sheet with Year and Month columns, either cell possibly empty
TallyRows ==
    {[c \in UndatedCols |->
        CASE c = "Year" -> y [] c = "Month" -> m
          [] c = "Order ID" -> Some(tA1)] :
        y \in {Some(2024), None}, m \in {Some(1), None}}

TallyFiles ==
    SimpleFiles
    \cup {[ok |-> TRUE, text |-> FALSE, df |-> f] :
            f \in NonEmptyFramesOf(UndatedCols, TallyRows, 1)}

InitTally ==
    /\ IdleStore /\ IdleNorm /\ IdlePipe /\ IdleParse /\ IdleExport
    /\ IdleServer /\ IdleValid /\ IdleRoot /\ IdleRace
    /\ cfg \in BOOLEAN
    /\ \E n \in 0..MaxFiles : sin \in [1..n -> TallyFiles]
    /\ sdir = <<>>
    /\ sret = NoOutcome
    /\ sdone = FALSE

SpecTally == InitTally /\ [][NextSimple]_vars

----------------------------------------------------------------------------
(* Claims about the counters of run_simple_etl, checked under SpecTally *)

\* the file_errors entries that are not warnings
NonWarnings ==
    {k \in DOMAIN sret.file_errors : ~sret.file_errors[k].warning}

\* C29: in every result run_simple_etl returns, files_loaded plus the
\* number of file_errors entries that are not warnings is input_files, and
\* saved_rows plus null_dates is total_rows.
C29_CountersConsistent ==
    (sdone /\ sret.raised = "none") =>
        /\ sret.files_loaded + Cardinality(NonWarnings) = sret.input_files
        /\ sret.saved_rows + sret.null_dates = sret.total_rows

\* some loaded sheet has a Date column, so that Year and Month of every
\* combined row are derived from Date
SomeDateLoaded ==
    \E i \in DOMAIN sin :
        sin[i].ok /\ Height(sin[i].df) > 0 /\ "Date" \in sin[i].df.cols

\* what holds: the file counters always add up, and the row counters do
\* when Year and Month are derived from a Date column
C29_ConsistentWithDate ==
    (sdone /\ sret.raised = "none") =>
        /\ sret.files_loaded + Cardinality(NonWarnings) = sret.input_files
        /\ sret.input_files = Len(sin)
        /\ SomeDateLoaded =>
              sret.saved_rows + sret.null_dates = sret.total_rows
        /\ sret.saved_rows + sret.null_dates <= sret.total_rows

\* a result in which a row was neither saved nor counted in null_dates
C29_RowUncounted ==
    /\ sdone /\ sret.raised = "none"
    /\ sret.total_rows = 1 /\ sret.saved_rows = 0 /\ sret.null_dates = 0

\* a result on dated sheets with a failed file, a warning, a saved row
\* and a row without date
C29_DatedResult ==
    /\ sdone /\ sret.raised = "none" /\ SomeDateLoaded
    /\ sret.saved_rows > 0 /\ sret.null_dates > 0
    /\ Cardinality(NonWarnings) > 0

----------------------------------------------------------------------------
(* Two run_pipeline calls at once on one output directory, for one source
   and the layers Bronze and Silver.  A step of a run is what it does in
   memory up to and including one read or one write of a partition file. *)

MaxRaceRows == 2

RaceRuns == {1, 2}
RaceSource == "alpha"

\* the partitions of a frame in the order save_partitioned writes them
RECURSIVE PartsInOrder(_)
PartsInOrder(ps) ==
    IF ps = {} THEN <<>>
    ELSE <<FirstPart(ps)>> \o PartsInOrder(ps \ {FirstPart(ps)})

\* (mutant) a write that leaves a file already at the path as it is
WriteIfAbsent(store, path, frame) ==
    [p \in DOMAIN store \cup {path} |->
        IF p \in DOMAIN store THEN store[p] ELSE frame]

\* base.py, lines 126-129: partition_df.write_parquet(partition_path); no
\* lock is taken and a file at the path is replaced
WriteFile(store, path, frame) ==
    [p \in DOMAIN store \cup {path} |-> IF p = path THEN frame ELSE store[p]]

\* what a run goes on with once a stage's frame is ready: the writes of
\* its partitions (lines 105-113), or the next stage if there is none
ToWrite(df, stage, after) ==
    [buf |-> DropNullPartitions(df, 1),
     todo |-> PartsInOrder(UniqueParts(DropNullPartitions(df, 1))),
     pc |-> IF Height(DropNullPartitions(df, 1)) = 0 THEN after ELSE stage]

\* BronzeETL extract and transform of the run's own input
RaceBronze(r) ==
    /\ rpc[r] = "bronze"
    /\ \E w \in {ToWrite(BronzeTransform(
                            BronzeExtract(OneFile(rin[r])).df, RaceSource),
                         "bronze_write", "silver")} :
          /\ rbuf' = [rbuf EXCEPT ![r] = w.buf]
          /\ rtodo' = [rtodo EXCEPT ![r] = w.todo]
          /\ rpc' = [rpc EXCEPT ![r] = w.pc]
    /\ UNCHANGED <<rin, rbronze, rsilver, rlast>>
    /\ UNCHANGED nonRaceVars

\* one partition file written by save_partitioned
RaceWrite(r) ==
    /\ rpc[r] \in {"bronze_write", "silver_write"}
    /\ \E part \in {Head(rtodo[r])} :
       \E path \in {PartitionPath(part[1], part[2])} :
          /\ IF rpc[r] = "bronze_write"
             THEN /\ rbronze' = WriteFile(rbronze, path,
                                          PartitionFrame(rbuf[r], part))
                  /\ rsilver' = rsilver
             ELSE /\ rsilver' = WriteFile(rsilver, path,
                                          PartitionFrame(rbuf[r], part))
                  /\ rbronze' = rbronze
          /\ rlast' = [run |-> r,
                       stage |-> IF rpc[r] = "bronze_write"
                                 THEN "bronze" ELSE "silver",
                       path |-> path,
                       frame |-> PartitionFrame(rbuf[r], part)]
    /\ rtodo' = [rtodo EXCEPT ![r] = Tail(@)]
    /\ rpc' = [rpc EXCEPT ![r] =
                 IF Tail(rtodo[r]) # <<>> THEN @
                 ELSE IF @ = "bronze_write" THEN "silver" ELSE "done"]
    /\ UNCHANGED <<rin, rbuf>>
    /\ UNCHANGED nonRaceVars

\* SilverETL.extract, lines 18-23: the glob of the Bronze directory
RaceSilverGlob(r) ==
    /\ rpc[r] = "silver"
    /\ rtodo' = [rtodo EXCEPT ![r] = scan_partitions(DOMAIN rbronze)]
    /\ rbuf' = [rbuf EXCEPT ![r] = EmptyFrame]
    /\ rpc' = [rpc EXCEPT ![r] =
                 IF DOMAIN rbronze = {} THEN "done" ELSE "silver_read"]
    /\ UNCHANGED <<rin, rbronze, rsilver, rlast>>
    /\ UNCHANGED nonRaceVars

\* SilverETL.extract, line 26: one file read; after the last one the
\* frames are concatenated and transformed
RaceSilverRead(r) ==
    /\ rpc[r] = "silver_read"
    /\ \E df \in {ConcatDiagonal(rbuf[r], rbronze[Head(rtodo[r])])} :
          IF Tail(rtodo[r]) # <<>>
          THEN /\ rbuf' = [rbuf EXCEPT ![r] = df]
               /\ rtodo' = [rtodo EXCEPT ![r] = Tail(@)]
               /\ rpc' = rpc
          ELSE \E w \in {ToWrite(SilverTransform(df, RaceSource),
                                 "silver_write", "done")} :
                  /\ rbuf' = [rbuf EXCEPT ![r] = w.buf]
                  /\ rtodo' = [rtodo EXCEPT ![r] = w.todo]
                  /\ rpc' = [rpc EXCEPT ![r] = w.pc]
    /\ UNCHANGED <<rin, rbronze, rsilver, rlast>>
    /\ UNCHANGED nonRaceVars

\* the inputs of the two runs: orders of January and February, the orders
\* of run 1 and of run 2 under different Order IDs
RaceRows(r) ==
    {[c \in DatedCols |->
        CASE c = "Date" -> Some(d)
          [] c = "Order ID" ->
                Some(IF r = 1 THEN tA1 ELSE tTEST \o <<"7">>)
          [] c = "Status" -> Some(tCompleted)] :
        d \in {<<2024, 1, 5>>, <<2024, 2, 5>>}}

InitRace ==
    /\ IdleStore /\ IdleNorm /\ IdlePipe /\ IdleParse /\ IdleSimple
    /\ IdleExport /\ IdleServer /\ IdleValid /\ IdleRoot
    /\ \E f \in NonEmptyFramesOf(DatedCols, RaceRows(1), MaxRaceRows),
          g \in NonEmptyFramesOf(DatedCols, RaceRows(2), MaxRaceRows) :
          rin = [r \in RaceRuns |-> IF r = 1 THEN f ELSE g]
    /\ rbronze = <<>>
    /\ rsilver = <<>>
    /\ rpc = [r \in RaceRuns |-> "bronze"]
    /\ rtodo = [r \in RaceRuns |-> <<>>]
    /\ rbuf = [r \in RaceRuns |-> EmptyFrame]
    /\ rlast = NoWrite

NextRace ==
    \E r \in RaceRuns :
        RaceBronze(r) \/ RaceWrite(r) \/ RaceSilverGlob(r)
        \/ RaceSilverRead(r)

SpecRace == InitRace /\ [][NextRace]_vars

\* the output tree of a run executed on the tree `tree`, nothing else
\* running
RunOn(r, tree) ==
    [bronze |-> BronzeRun(OneFile(rin[r]), RaceSource, tree.bronze).store,
     silver |-> SilverRun(
                    BronzeRun(OneFile(rin[r]), RaceSource, tree.bronze).store,
                    RaceSource, tree.silver).store]

EmptyTree == [bronze |-> <<>>, silver |-> <<>>]
RaceTree == [bronze |-> rbronze, silver |-> rsilver]
RaceDone == \A r \in RaceRuns : rpc[r] = "done"

\* the trees the two runs leave when one runs after the other has ended
SerialTrees ==
    {RunOn(1, EmptyTree), RunOn(2, EmptyTree),
     RunOn(2, RunOn(1, EmptyTree)), RunOn(1, RunOn(2, EmptyTree))}

\* C28: no lock guards a partition file: whatever a run writes replaces
\* the file at that path, also when the other run wrote it or is between
\* two of its own reads and writes, so that interleaved runs can leave a
\* tree that neither run leaves alone.
C28_UnguardedOverwrite ==
    rlast.run # 0 =>
        /\ rlast.stage = "bronze" =>
              /\ rlast.path \in DOMAIN rbronze
              /\ rbronze[rlast.path] = rlast.frame
        /\ rlast.stage = "silver" =>
              /\ rlast.path \in DOMAIN rsilver
              /\ rsilver[rlast.path] = rlast.frame

\* C28 witness: both runs have ended and the tree is the one of neither
\* run alone, nor of the two runs one after the other
C28_Witness ==
    /\ RaceDone
    /\ RaceTree \notin SerialTrees

\* C28, the example: in the final tree a Silver file holds the orders of
\* one run and the Bronze file at the same path those of the other
C28_SilverReadOtherRun ==
    /\ RaceDone
    /\ \E p \in DOMAIN rsilver \cap DOMAIN rbronze :
       \E a \in DOMAIN rsilver[p].rows :
       \A b \in DOMAIN rbronze[p].rows :
          a["Order ID"] # b["Order ID"]

\* a run that ends before the other one starts leaves the tree it leaves
\* alone
C28_AloneAgrees ==
    \A r \in RaceRuns :
        (rpc[r] = "done" /\ \A q \in RaceRuns \ {r} : rpc[q] = "bronze")
            => RaceTree = RunOn(r, EmptyTree)

====
